---- MODULE Spec2Model ----
(***************************************************************************)
(* A model of the .rw domain crawler (Janvier-Irasubiza/web-crawler).      *)
(*                                                                         *)
(* Spec       one run of a crawler, from construction to return.  The run  *)
(*            is of one of the four crawlers of the repository:            *)
(*              "multi"     src/crawlers/rw_crawler.py: crawl(), its       *)
(*                          strategies, the batch loop process_url_queue   *)
(*                          with its page workers, and the catalog file;   *)
(*              "selenium"  src/rw_crawler.py: crawl() and process_url;    *)
(*              "basic"     src/crawler.py: crawl();                       *)
(*              "rwcrawler" src/crawler/crawler.py: RWCrawler.run().       *)
(* SpecFetch  get_page_content, one loop iteration per step.               *)
(* SpecRobots the politeness gate: check_robots_txt and                    *)
(*            RWCrawler.is_allowed_by_robots.                              *)
(*                                                                         *)
(* A host name is the sequence of its labels (<<"www","gov","rw">> is      *)
(* www.gov.rw); a URL is a record of scheme, host and path, which is what  *)
(* urlparse makes of it.  A text is a sequence of tokens, so that the      *)
(* substring tests of the code stay substring tests.                       *)
(***************************************************************************)
EXTENDS Integers, Sequences, FiniteSets, TLC

VARIABLES
    cfg,            \* the run's parameters: world, max_depth, max_pages
    pc,             \* where crawl() is
    domain_data,    \* self.domain_data: normalized domain -> record
    visited_urls,   \* crawl()'s visited_urls set
    urls_to_visit,  \* crawl()'s deque of (url, depth)
    tasks,          \* the futures of the current batch, one per page worker
    sv,             \* per thread: where it is in save_single_domain / save_results
    file,           \* rw_domains.json on disk
    robots_cache,   \* self.robots_cache: domain -> decision
    pending,        \* the candidates the running strategy still has to handle
    engine,         \* index of the search engine crawl() is at
    clock,          \* datetime.now(), as a logical clock
    killed,         \* the process was killed
    hist,           \* history: what was handed to workers, pushed, flushed
    gp,             \* get_page_content: one call's state
    rb,             \* the politeness gate's calls: caches and the last call
    total_pages,    \* total_pages of the other crawl loops (pages_crawled in RWCrawler)
    searchers,      \* src/rw_crawler.py: the search futures, one per engine
    discovered_domains, \* RWCrawler.discovered_domains
    browser,        \* src/rw_crawler.py: self.drivers and the browser sessions made
    call,           \* the last call of a pure function: its argument and result
    crawler_state,  \* src/crawler/crawler.py: the module's crawler_state dict
    new_links,      \* RWCrawler.run(): what crawl_url returned, not yet counted
    dash            \* src/crawler/dashboard.py: the /api/start requests and the run threads

loopVars == <<total_pages, searchers, discovered_domains, browser>>
crawlVars == <<cfg, pc, domain_data, visited_urls, urls_to_visit, tasks, sv,
               file, robots_cache, pending, engine, clock, killed, hist, loopVars>>
dashVars == <<crawler_state, new_links, dash>>
vars == <<cfg, pc, domain_data, visited_urls, urls_to_visit, tasks, sv,
          file, robots_cache, pending, engine, clock, killed, hist, gp, rb, call, loopVars,
          dashVars>>

(***************************************************************************)
(* Sequences helpers                                                       *)
(***************************************************************************)
Range(s) == {s[i] : i \in 1..Len(s)}

\* text contains pat as a contiguous run (Python's `pat in text`)
Contains(text, pat) ==
    \E i \in 1..(Len(text) + 1) :
        /\ i + Len(pat) - 1 <= Len(text)
        /\ SubSeq(text, i, i + Len(pat) - 1) = pat

RECURSIVE FilterSeq(_, _)
\* [x for x in s if x \in keep]
FilterSeq(s, keep) ==
    IF s = <<>> THEN <<>>
    ELSE IF Head(s) \in keep THEN <<Head(s)>> \o FilterSeq(Tail(s), keep)
    ELSE FilterSeq(Tail(s), keep)

(***************************************************************************)
(* URLs and domains                                                        *)
(***************************************************************************)
Url(s, h, p) == [scheme |-> s, host |-> h, path |-> p]

\* f"https://{domain}"
HttpsOf(h) == Url("https", h, "")
\* f"http://{domain}"
HttpOf(h) == Url("http", h, "")

\* str.lower() on one label; the labels of the model that have upper case
Lower(l) ==
    CASE l = "WWW" -> "www"
      [] l = "GOV" -> "gov"
      [] l = "RW" -> "rw"
      [] OTHER -> l

\* netloc.lower()
LowerHost(h) == [i \in 1..Len(h) |-> Lower(h[i])]

is_valid_url(u) ==
    /\ u.host # <<>>
    /\ u.scheme # ""
    /\ u.scheme \in {"http", "https"}

\* RWCrawler.is_valid_url: an http(s) scheme and no skipped extension
skip_extensions == {".pdf", ".jpg"}
rw_is_valid_url(u) ==
    /\ u.scheme \in {"http", "https"}
    /\ u.path \notin skip_extensions

\* netloc.lower().endswith('.rw'): a last label rw after a dot
is_rw_domain(u) ==
    /\ Len(u.host) >= 2
    /\ LowerHost(u.host)[Len(u.host)] = "rw"

\* domain.startswith('www.') strips the first label and its dot
normalize_domain(d) ==
    IF Len(d) >= 2 /\ Head(d) = "www" THEN Tail(d) ELSE d

extract_domain(u) == normalize_domain(LowerHost(u.host))

(***************************************************************************)
(* The politeness gate                                                     *)
(***************************************************************************)
\* A robots.txt body is a sequence of lines, a line a sequence of tokens.
UaLine(agent) == <<"User-agent: ", agent>>
DisallowLine(path) == <<"Disallow: ">> \o path
AllowLine(path) == <<"Allow: ">> \o path

RECURSIVE JoinLines(_)
\* response.text: the lines joined by newlines
JoinLines(ls) ==
    IF ls = <<>> THEN <<>>
    ELSE IF Len(ls) = 1 THEN Head(ls)
    ELSE Head(ls) \o <<"\n">> \o JoinLines(Tail(ls))

BodyDenyAll == <<UaLine("*"), DisallowLine(<<"/">>)>>
BodyDenyPath == <<UaLine("*"), DisallowLine(<<"/", "private">>)>>
BodyDenyOtherAgent ==
    <<UaLine("badbot"), DisallowLine(<<"/">>), UaLine("*"), AllowLine(<<"/">>)>>
BodyDenyNothing == <<UaLine("*"), DisallowLine(<<>>)>>
BodyOnlyOtherAgent == <<UaLine("badbot"), DisallowLine(<<"/">>)>>
BodyEmpty == <<>>

RobotsBodies == {BodyDenyAll, BodyDenyPath, BodyDenyOtherAgent, BodyDenyNothing,
                 BodyOnlyOtherAgent, BodyEmpty}

\* What requests.get(robots_url) can do: raise, or answer with a status and a body
RobotsResponses ==
    {[kind |-> "error", status |-> 0, body |-> BodyEmpty]}
    \cup {[kind |-> "response", status |-> st, body |-> b] :
             st \in {200, 404, 500}, b \in RobotsBodies}

\* check_robots_txt's try block and its except: the decision for a response
RobotsDecisionFailClosed(resp) ==
    IF resp.kind = "error" THEN FALSE
    ELSE ~ ( /\ resp.status = 200
             /\ Contains(JoinLines(resp.body), <<"User-agent: ", "*">>)
             /\ Contains(JoinLines(resp.body), <<"Disallow: ", "/">>) )

RobotsDecision(resp) ==
    IF resp.kind = "error" THEN TRUE
    ELSE ~ ( /\ resp.status = 200
             /\ Contains(JoinLines(resp.body), <<"User-agent: ", "*">>)
             /\ Contains(JoinLines(resp.body), <<"Disallow: ", "/">>) )

\* dict[k] = v
DictSet(dict, k, v) ==
    [x \in (DOMAIN dict) \cup {k} |-> IF x = k THEN v ELSE dict[x]]

EmptyDict == [x \in {} |-> TRUE]

\* check_robots_txt(domain) as one call: the value returned, the cache it
\* leaves, and whether robots.txt was requested
check_robots_txt_flag_ignored(respect_robots, cache, domain, resp) ==
    IF domain \in DOMAIN cache
    THEN [result |-> cache[domain], cache |-> cache, requested |-> FALSE]
    ELSE [result |-> RobotsDecision(resp),
          cache |-> DictSet(cache, domain, RobotsDecision(resp)),
          requested |-> TRUE]

check_robots_txt(respect_robots, cache, domain, resp) ==
    IF ~respect_robots
    THEN [result |-> TRUE, cache |-> cache, requested |-> FALSE]
    ELSE IF domain \in DOMAIN cache
    THEN [result |-> cache[domain], cache |-> cache, requested |-> FALSE]
    ELSE [result |-> RobotsDecision(resp),
          cache |-> DictSet(cache, domain, RobotsDecision(resp)),
          requested |-> TRUE]

\* RobotFileParser.read() either raises (the network failed) or leaves a parser;
\* of the parser the model keeps what can_fetch answers for this crawler.
RpReads == {[kind |-> "error", can_fetch |-> TRUE]}
           \cup {[kind |-> "parsed", can_fetch |-> b] : b \in BOOLEAN}

\* RWCrawler.is_allowed_by_robots(url) as one call; the cache is keyed by the
\* robots.txt URL, which the site's host stands for
is_allowed_by_robots(respect_robots, cache, host, rd) ==
    IF ~respect_robots
    THEN [result |-> TRUE, cache |-> cache, requested |-> FALSE]
    ELSE IF host \in DOMAIN cache
    THEN [result |-> cache[host], cache |-> cache, requested |-> FALSE]
    ELSE IF rd.kind = "error"
    THEN [result |-> TRUE, cache |-> cache, requested |-> TRUE]
    ELSE [result |-> rd.can_fetch,
          cache |-> DictSet(cache, host, rd.can_fetch),
          requested |-> TRUE]

(***************************************************************************)
(* The fetcher: get_page_content                                           *)
(***************************************************************************)
retries == 3

\* What requests.get(url) can do: raise, or answer with a status
TooManyRequests == [kind |-> "response", status |-> 429]
Ok200 == [kind |-> "response", status |-> 200]
TransportError == [kind |-> "error", status |-> 0]
PageResponses ==
    {TransportError} \cup {[kind |-> "response", status |-> st] :
                              st \in {200, 404, 429, 500}}

\* random.uniform(2, 5) and random.uniform(30, 60): the ends of each range
BackoffChoices == {2, 5}
RateLimitWaits == {30, 60}

GpStart == [pc |-> "loop", attempt |-> 0, requests |-> 0, slept |-> 0,
            log |-> <<>>, result |-> "pending"]

\* the loop ends when range(retries) is used up: return None
GpContinue(g) ==
    IF g.attempt >= retries
    THEN [g EXCEPT !.pc = "done", !.result = "none"]
    ELSE g

\* One iteration of `for attempt in range(retries)`: the sleep before a
\* repeated attempt, the request, and what the answer leads to
GpIterationUnbounded(g, resp, backoff, wait) ==
    LET pre == IF g.attempt > 0 THEN backoff * (g.attempt + 1) ELSE 0
        asked == [g EXCEPT !.requests = @ + 1, !.slept = @ + pre,
                           !.log = Append(@, resp)]
    IN  IF resp.kind = "error"
        THEN asked
        ELSE IF resp.status = 200
        THEN [asked EXCEPT !.pc = "done", !.result = "content"]
        ELSE IF resp.status = 429
        THEN [asked EXCEPT !.slept = @ + wait]
        ELSE [asked EXCEPT !.pc = "done", !.result = "none"]

GpIterationNoBackoff(g, resp, backoff, wait) ==
    LET asked == [g EXCEPT !.requests = @ + 1, !.log = Append(@, resp)]
    IN  IF resp.kind = "error"
        THEN GpContinue([asked EXCEPT !.attempt = @ + 1])
        ELSE IF resp.status = 200
        THEN [asked EXCEPT !.pc = "done", !.result = "content"]
        ELSE IF resp.status = 429
        THEN GpContinue([asked EXCEPT !.attempt = @ + 1, !.slept = @ + wait])
        ELSE [asked EXCEPT !.pc = "done", !.result = "none"]

GpIteration(g, resp, backoff, wait) ==
    LET pre == IF g.attempt > 0 THEN backoff * (g.attempt + 1) ELSE 0
        asked == [g EXCEPT !.requests = @ + 1, !.slept = @ + pre,
                           !.log = Append(@, resp)]
    IN  IF resp.kind = "error"
        THEN GpContinue([asked EXCEPT !.attempt = @ + 1])
        ELSE IF resp.status = 200
        THEN [asked EXCEPT !.pc = "done", !.result = "content"]
        ELSE IF resp.status = 429
        THEN GpContinue([asked EXCEPT !.attempt = @ + 1, !.slept = @ + wait])
        ELSE [asked EXCEPT !.pc = "done", !.result = "none"]

(***************************************************************************)
(* The world the crawler runs against                                      *)
(***************************************************************************)
Gov == <<"gov", "rw">>
SubGov == <<"sub", "gov", "rw">>
MailGov == <<"mail", "gov", "rw">>
WwwGov == <<"www", "gov", "rw">>
UpperWwwGov == <<"WWW", "gov", "rw">>
Irembo == <<"irembo", "gov", "rw">>
WwwIrembo == <<"www", "irembo", "gov", "rw">>
External == <<"external", "com">>
OldSite == <<"old", "rw">>

MailTo == Url("mailto", <<>>, "info@gov.rw")

\* World "A": gov.rw links to sub.gov.rw and external.com.
\* World "B": gov.rw links to www.irembo.gov.rw and irembo.gov.rw, one site.
Worlds == {"A", "B"}

\* self.seed_domains, cut to the one seed the worlds are built around
seed_domains == <<Gov>>

\* The <a href> targets of a page, after urljoin, in document order
PageLinks(world, u) ==
    IF world = "A"
    THEN CASE u = HttpsOf(Gov) -> <<HttpsOf(SubGov), HttpsOf(External)>>
           [] u = HttpsOf(SubGov) -> <<HttpsOf(Gov), MailTo>>
           [] OTHER -> <<>>
    ELSE CASE u = HttpsOf(Gov) -> <<HttpsOf(WwwIrembo), HttpsOf(Irembo), HttpsOf(SubGov),
                                  MailTo>>
           [] u = HttpsOf(WwwIrembo) -> <<HttpsOf(Gov)>>
           [] u = HttpsOf(Irembo) -> <<HttpsOf(SubGov)>>
           [] OTHER -> <<>>

\* The robots.txt a site serves
SiteRobots(world, d) ==
    IF world = "A" /\ d = SubGov
    THEN [kind |-> "response", status |-> 200, body |-> BodyDenyAll]
    ELSE [kind |-> "response", status |-> 404, body |-> BodyEmpty]

\* What a search engine's result pages link to, all pages of all queries in turn
SearchLinks(world) ==
    IF world = "A"
    THEN <<HttpsOf(SubGov), HttpsOf(SubGov), HttpsOf(External), HttpsOf(Gov)>>
    ELSE <<HttpsOf(Irembo), HttpsOf(Gov), MailTo>>

\* The sets of names the certificate log can return for %.rw; none if the
\* query fails
CtAnswers == {{}, {WwwIrembo, Irembo}, {WwwGov}, {UpperWwwGov}}

\* The A records a name server hands out when it allows the transfer
ZoneNames == <<Gov>>

\* common_subdomains, cut to two labels
common_subdomains == <<"www", "mail">>

\* The answers of a host to the HEAD probes over https and http
ProbeAnswers(h) ==
    CASE h = WwwGov -> [https |-> Ok200, http |-> Ok200]
      [] h = MailGov -> [https |-> [kind |-> "response", status |-> 404],
                         http |-> Ok200]
      [] OTHER -> [https |-> TransportError, http |-> TransportError]

\* test_domain_exists on the answers to the two HEAD probes; the except
\* around both returns False
test_domain_exists(https, http) ==
    IF https.kind = "error" THEN FALSE
    ELSE IF https.status < 400 THEN TRUE
    ELSE IF http.kind = "error" THEN FALSE
    ELSE http.status < 400

(***************************************************************************)
(* The catalog and its file                                                *)
(***************************************************************************)
DomainRecord(nd, u, title, t) ==
    [domain |-> nd, url |-> u, title |-> title, discovered_at |-> t]

NoRecord == DomainRecord(<<>>, MailTo, "", 0)

\* rw_domains.json: missing, empty (opened for writing and not yet written),
\* garbage (bytes that are no document), or a document
FileMissing == [kind |-> "missing", domains |-> <<>>, domains_found |-> 0]
FileEmpty == [kind |-> "empty", domains |-> <<>>, domains_found |-> 0]
FileGarbage == [kind |-> "garbage", domains |-> <<>>, domains_found |-> 0]
Document(ds, n) == [kind |-> "doc", domains |-> ds, domains_found |-> n]

\* A document some earlier run left behind
OldDocument == Document(<<DomainRecord(OldSite, HttpsOf(OldSite), "Old", 0)>>, 1)

RECURSIVE SetToSeq(_)
SetToSeq(S) ==
    IF S = {} THEN <<>>
    ELSE LET x == CHOOSE y \in S : \A z \in S : y.discovered_at <= z.discovered_at
         IN  <<x>> \o SetToSeq(S \ {x})

\* list(self.domain_data.values())
CatalogValues(dd) == SetToSeq({dd[d] : d \in DOMAIN dd})

\* The domains a document lists
DocDomains(f) == {f.domains[i].domain : i \in 1..Len(f.domains)}

(***************************************************************************)
(* State of the multi-strategy crawler                                     *)
(***************************************************************************)
\* concurrent_requests: the width of the worker pool and of a batch
ConcurrentRequests == 2
\* max_depth and max_pages are drawn from 0..MaxDepth and 1..MaxPages
MaxDepth == 2
MaxPages == 3
\* len(self.search_engines)
NumEngines == 1

MainThread == 0
Threads == 0..ConcurrentRequests

SaveIdle == [stage |-> "idle", rec |-> NoRecord, doc |-> FileMissing]

Count(dict, k) == IF k \in DOMAIN dict THEN dict[k] ELSE 0

QueueItem(u, depth) == [url |-> u, depth |-> depth]

\* A future of the batch: process_url(url, depth) and where it is.  The
\* multi-strategy worker starts at the robots check, the one of
\* src/rw_crawler.py at the fetch; result is what the future returns (the
\* links of the page, or success)
Task(u, depth, start) ==
    [url |-> u, depth |-> depth, pc |-> start, rec |-> NoRecord,
     result |-> <<>>, success |-> FALSE]

\* history of the run: how often each URL was handed to a worker and at
\* which depths, how often it was pushed into the queue, the items popped at
\* depth >= max_depth, the pages fetched, the domains two workers of one
\* batch fetched pages of, the domains some document on disk has held
HistStart(f) ==
    [handed |-> EmptyDict, handed_depth |-> {}, pushed |-> EmptyDict,
     too_deep |-> {}, fetched |-> {}, together |-> {}, flushed |-> DocDomains(f),
     ran |-> {}, failed |-> {}, flush_failed |-> FALSE, raised |-> "",
     robots_asked |-> EmptyDict, robots_said |-> EmptyDict, search_fed |-> {},
     gate_allowed |-> {}, gate_denied |-> {}, requested |-> {},
     enqueued |-> {}, handed_at |-> EmptyDict]

\* history: `items` entered the queue, put there by a strategy ("seed",
\* "search") or as the links of the page of URL `parent` ("link")
Enqueued(h, kind, parent, items) ==
    [h EXCEPT !.enqueued = @ \cup {[kind |-> kind, parent |-> parent,
                                     depth |-> items[i].depth] : i \in 1..Len(items)}]

\* history: the items of `batch` were handed to workers at their depths
HandedAt(h, batch) ==
    [h EXCEPT !.handed_at =
        [u \in (DOMAIN @) \cup {batch[i].url : i \in 1..Len(batch)} |->
            IF \E i \in 1..Len(batch) : batch[i].url = u
            THEN batch[CHOOSE i \in 1..Len(batch) : batch[i].url = u].depth
            ELSE @[u]]]

\* The depth of a link of a page fetched at `depth`
LinkDepthSame(depth) == depth

LinkDepth(depth) == depth + 1


\* history: asked about URL u, the gate answered `said` for its domain d,
\* with or without a request for robots.txt
GateAnswered(h, u, d, requested, said) ==
    [h EXCEPT !.gate_allowed = IF said THEN @ \cup {u} ELSE @,
              !.gate_denied = IF said THEN @ ELSE @ \cup {u},
              !.robots_asked = IF requested THEN DictSet(@, d, Count(@, d) + 1) ELSE @,
              !.robots_said = DictSet(@, d, (IF d \in DOMAIN @ THEN @[d] ELSE {})
                                                \cup {said})]

\* history: the request for the page of URL u went out
PageRequested(h, u) == [h EXCEPT !.requested = @ \cup {u}]

\* history: the items among the first n of the queue with depth >= max_depth
TooDeep(queue, n, max_depth) ==
    {queue[i] : i \in {j \in 1..n : queue[j].depth >= max_depth}}

Variants == {"multi", "selenium", "basic", "rwcrawler"}

\* Where each crawler's run starts
\* ---- src/crawler/crawler.py: crawler_state --------------------------------
\* start_time is None
NoTime == 0

\* crawler_state as the module makes it (elapsed_time is left out)
CrawlerStateStart ==
    [is_running |-> FALSE, pages_crawled |-> 0, domains_discovered |-> 0,
     start_time |-> NoTime]

\* RWCrawler.__init__, "Reset crawler state"
ResetCounters(cs) == [cs EXCEPT !.pages_crawled = 0, !.domains_discovered = 0]

\* crawler_state["is_running"] = True; crawler_state["start_time"] = now
RunStarts(cs, now) == [cs EXCEPT !.is_running = TRUE, !.start_time = now]

\* finally: is_running = False, start_time = None
RunEnds(cs) == [cs EXCEPT !.is_running = FALSE, !.start_time = NoTime]

\* main() of src/crawler/crawler.py wraps RWCrawler.run() in try/finally; the
\* other crawlers have no crawler_state
AfterMain(cs) == IF cfg.variant = "rwcrawler" THEN RunEnds(cs) ELSE cs

\* new_links of RWCrawler.run(): nothing returned that is not yet counted
NoLinks == [waiting |-> FALSE, links |-> <<>>]

\* ---- src/crawler/dashboard.py ---------------------------------------------
\* the /api/start requests the model lets arrive, and the pages a run of the
\* dashboard crawls at most
NumRequests == 3
DashMaxPages == 1

\* A request that has not arrived; the thread it may start, not started
RequestIdle == [pc |-> "idle", status |-> "", arrived_active |-> FALSE]
NoRun == [pc |-> "none", pages |-> 0, raised |-> FALSE]

DashStart == [requests |-> [r \in 1..NumRequests |-> RequestIdle],
              runs |-> [r \in 1..NumRequests |-> NoRun]]

\* The dashboard is not there: the state the crawl keeps these in
DashOff == crawler_state = CrawlerStateStart /\ new_links = NoLinks /\ dash = DashStart

StartPc(variant) ==
    CASE variant = "multi" -> "ct"
      [] variant = "selenium" -> "s_search"
      [] variant = "basic" -> "b_seed"
      [] OTHER -> "r_start"

SearcherIdle == [pc |-> "done", links |-> <<>>]

\* self.drivers = {} and no browser session yet.  A session is a Chrome
\* process with its chromedriver; it is live until quit() is called on it.
BrowserStart == [drivers |-> EmptyDict, sessions |-> <<>>]

InitCrawl ==
    /\ cfg \in [variant : Variants, world : Worlds, max_depth : 0..MaxDepth,
                max_pages : 1..MaxPages, respect_robots : {TRUE}]
    /\ pc = StartPc(cfg.variant)
    /\ total_pages = 0
    /\ searchers = [e \in 1..NumEngines |-> SearcherIdle]
    /\ discovered_domains = {}
    /\ browser = BrowserStart
    /\ domain_data = EmptyDict
    /\ visited_urls = {}
    /\ urls_to_visit = <<>>
    /\ tasks = <<>>
    /\ sv = [t \in Threads |-> SaveIdle]
    /\ file \in {FileMissing, OldDocument}
    /\ robots_cache = EmptyDict
    /\ pending = {}
    /\ engine = 1
    /\ clock = 1
    /\ killed = FALSE
    /\ hist = HistStart(file)

\* The crawler is not running: the state the other specifications keep it in
CrawlOff ==
    /\ cfg = [variant |-> "multi", world |-> "A", max_depth |-> 1, max_pages |-> 1,
              respect_robots |-> TRUE]
    /\ pc = "off"
    /\ total_pages = 0
    /\ searchers = [e \in 1..NumEngines |-> SearcherIdle]
    /\ discovered_domains = {}
    /\ browser = BrowserStart
    /\ domain_data = EmptyDict
    /\ visited_urls = {}
    /\ urls_to_visit = <<>>
    /\ tasks = <<>>
    /\ sv = [t \in Threads |-> SaveIdle]
    /\ file = FileMissing
    /\ robots_cache = EmptyDict
    /\ pending = {}
    /\ engine = 1
    /\ clock = 1
    /\ killed = FALSE
    /\ hist = HistStart(FileMissing)

\* No pure function has been called
CallIdle == [fn |-> "none", variant |-> "multi", arg |-> <<>>, result |-> <<>>,
             again |-> <<>>]

(***************************************************************************)
(* SpecFetch: one call of get_page_content                                 *)
(***************************************************************************)
GpIdle == [pc |-> "idle", attempt |-> 0, requests |-> 0, slept |-> 0,
           log |-> <<>>, result |-> "pending"]
RbIdle == [respect_robots |-> TRUE, cache |-> EmptyDict, rw_cache |-> EmptyDict,
           last |-> [fn |-> "none", domain |-> <<>>, kind |-> "none", status |-> 0,
                     body |-> BodyEmpty, result |-> TRUE, requested |-> FALSE,
                     hit |-> FALSE]]

InitFetch == CrawlOff /\ gp = GpStart /\ rb = RbIdle /\ call = CallIdle /\ DashOff

GetPageContentIterate ==
    /\ gp.pc = "loop"
    /\ \E resp \in PageResponses, backoff \in BackoffChoices, wait \in RateLimitWaits :
           gp' = GpIteration(gp, resp,
                             IF gp.attempt > 0 THEN backoff ELSE 2,
                             IF resp = TooManyRequests THEN wait ELSE 30)
    /\ UNCHANGED <<crawlVars, rb, call, dashVars>>

NextFetch == GetPageContentIterate

SpecFetch == InitFetch /\ [][NextFetch]_vars

(***************************************************************************)
(* SpecRobots: calls of the politeness gate, one after the other           *)
(***************************************************************************)
RobotsDomains == {Gov, SubGov}

InitRobots ==
    /\ CrawlOff
    /\ gp = GpIdle
    /\ call = CallIdle
    /\ \E r \in BOOLEAN : rb = [RbIdle EXCEPT !.respect_robots = r]
    /\ DashOff

CheckRobotsTxt ==
    \E d \in RobotsDomains, resp \in RobotsResponses :
        LET out == check_robots_txt(rb.respect_robots, rb.cache, d, resp)
        IN  /\ rb' = [rb EXCEPT !.cache = out.cache,
                                !.last = [fn |-> "check_robots_txt", domain |-> d,
                                          kind |-> resp.kind, status |-> resp.status,
                                          body |-> resp.body, result |-> out.result,
                                          requested |-> out.requested,
                                          hit |-> d \in DOMAIN rb.cache]]
            /\ UNCHANGED <<crawlVars, gp, call, dashVars>>

IsAllowedByRobots ==
    \E d \in RobotsDomains, rd \in RpReads :
        LET out == is_allowed_by_robots(rb.respect_robots, rb.rw_cache, d, rd)
        IN  /\ rb' = [rb EXCEPT !.rw_cache = out.cache,
                                !.last = [fn |-> "is_allowed_by_robots", domain |-> d,
                                          kind |-> rd.kind, status |-> 0,
                                          body |-> BodyEmpty, result |-> out.result,
                                          requested |-> out.requested,
                                          hit |-> d \in DOMAIN rb.rw_cache]]
            /\ UNCHANGED <<crawlVars, gp, call, dashVars>>

NextRobots == CheckRobotsTxt \/ IsAllowedByRobots

SpecRobots == InitRobots /\ [][NextRobots]_vars

(***************************************************************************)
(* SpecPure: the pure functions on URLs and domains, called on every       *)
(* argument of a bounded set                                               *)
(***************************************************************************)
\* The domains: up to MaxLabels labels, among them www in both cases
MaxLabels == 4
DomainLabels == {"www", "WWW", "example", "rw"}
DomainStrings == UNION {[1..n -> DomainLabels] : n \in 0..MaxLabels}

\* The URLs: with and without a scheme, a host and a skipped extension
UrlStrings ==
    {Url(s, h, p) : s \in {"", "http", "https", "ftp", "mailto"},
                    h \in {<<>>, Gov, WwwIrembo, External},
                    p \in {"", "/page", ".pdf"}}

\* src/rw_crawler.py normalize_domain: an empty domain is returned as it
\* is; any other is lower-cased and loses one leading 'www.'
sel_normalize_domain(d) ==
    IF d = <<>> THEN d ELSE normalize_domain(LowerHost(d))

\* normalize_domain of the crawler `variant`
NormalizeDomainOf(variant, d) ==
    IF variant = "selenium" THEN sel_normalize_domain(d) ELSE normalize_domain(d)

\* is_valid_url of the crawler `variant`
IsValidUrlOf(variant, u) ==
    IF variant = "rwcrawler" THEN rw_is_valid_url(u) ELSE is_valid_url(u)

InitPure == CrawlOff /\ gp = GpIdle /\ rb = RbIdle /\ call = CallIdle /\ DashOff

\* normalize_domain(d), and normalize_domain of what it returned
NormalizeDomain ==
    /\ call.fn = "none"
    /\ \E variant \in {"multi", "selenium"}, d \in DomainStrings :
          call' = [fn |-> "normalize_domain", variant |-> variant, arg |-> d,
                   result |-> NormalizeDomainOf(variant, d),
                   again |-> NormalizeDomainOf(variant, NormalizeDomainOf(variant, d))]
    /\ UNCHANGED <<crawlVars, gp, rb, dashVars>>

\* is_valid_url(u)
IsValidUrl ==
    /\ call.fn = "none"
    /\ \E variant \in Variants, u \in UrlStrings :
          call' = [fn |-> "is_valid_url", variant |-> variant, arg |-> u,
                   result |-> IsValidUrlOf(variant, u),
                   again |-> IsValidUrlOf(variant, u)]
    /\ UNCHANGED <<crawlVars, gp, rb, dashVars>>

\* test_domain_exists(domain), the two HEAD probes answering https and http
TestDomainExists ==
    /\ call.fn = "none"
    /\ \E https \in PageResponses, http \in PageResponses :
          call' = [fn |-> "test_domain_exists", variant |-> "multi",
                   arg |-> [https |-> https, http |-> http],
                   result |-> test_domain_exists(https, http),
                   again |-> test_domain_exists(https, http)]
    /\ UNCHANGED <<crawlVars, gp, rb, dashVars>>

NextPure == NormalizeDomain \/ IsValidUrl \/ TestDomainExists

SpecPure == InitPure /\ [][NextPure]_vars

(***************************************************************************)
(* Spec: the multi-strategy crawler                                        *)
(*                                                                         *)
(* Thread 0 is the thread that runs crawl(); thread t > 0 runs the t-th    *)
(* future of the current batch.  A step of a thread is one access to the   *)
(* state the threads share (the catalog, the robots cache, the file) or    *)
(* one call to the network.                                                *)
(***************************************************************************)
Running == ~killed

\* self.search_engines, the first NumEngines of them
search_engines == <<"google", "bing", "duckduckgo", "yandex">>

\* ---- src/rw_crawler.py: the browser sessions ------------------------------
\* use_selenium as the script at the end of the file sets it
use_selenium == TRUE

\* The try of init_selenium_driver: webdriver.Chrome raises and there is no
\* session ("failed"); or the session is made and stored in self.drivers
\* ("stored"); or the session is made and the call after it on the new
\* browser, set_page_load_timeout, raises, so that the except returns None
\* with the session neither stored nor quit ("lost")
WebDriverOutcomes == {"failed", "stored", "lost"}

NewDriver(b, name, outcome) ==
    LET made == Append(b.sessions, [name |-> name, state |-> "live"])
    IN  CASE outcome = "stored" ->
                [drivers |-> DictSet(b.drivers, name, Len(made)), sessions |-> made]
          [] outcome = "lost" -> [b EXCEPT !.sessions = made]
          [] OTHER -> b

\* init_selenium_driver(engine): the driver self.drivers has, or a new one
init_selenium_driver(b, name, outcome) ==
    IF name \in DOMAIN b.drivers THEN b ELSE NewDriver(b, name, outcome)

\* search_engine_crawl of each of the first n engines gets its driver (each
\* thread writes its own key of self.drivers)
RECURSIVE InitDrivers(_, _, _)
InitDrivers(b, n, out) ==
    IF n = 0 THEN b
    ELSE init_selenium_driver(InitDrivers(b, n - 1, out), search_engines[n], out[n])

\* close_selenium_drivers: quit() on every value of self.drivers
close_selenium_drivers(b) ==
    [b EXCEPT !.sessions =
        [i \in DOMAIN @ |->
            IF \E n \in DOMAIN b.drivers : b.drivers[n] = i
            THEN [@[i] EXCEPT !.state = "quit"]
            ELSE @[i]]]

\* ---- the catalog file --------------------------------------------------
\* history: the domains some complete document on disk has held
Flushed(f) == IF f.kind = "doc" THEN hist.flushed \cup DocDomains(f) ELSE hist.flushed

\* What a thread does once its save is over: a page worker returns the
\* links of its page (valid_urls), crawl() goes on
AfterSave(t) ==
    IF t = MainThread THEN tasks
    ELSE [tasks EXCEPT ![t].pc = "done",
                       ![t].result = FilterSeq(PageLinks(cfg.world, tasks[t].url),
                                               {u \in Range(PageLinks(cfg.world, tasks[t].url)) :
                                                    is_valid_url(u)})]

\* save_single_domain, first half: read the document (a missing or
\* unparseable file counts as an empty document), and append the record if
\* its domain is not listed
ExistingData(f) == IF f.kind = "doc" THEN f ELSE Document(<<>>, 0)

Merged(existing, rec) ==
    IF rec.domain \in DocDomains(existing) THEN existing
    ELSE Document(Append(existing.domains, rec), Len(existing.domains) + 1)

SaveRead(t) ==
    /\ Running
    /\ sv[t].stage = "read"
    /\ LET doc == Merged(ExistingData(file), sv[t].rec)
       IN  IF doc = ExistingData(file)
           THEN /\ sv' = [sv EXCEPT ![t] = SaveIdle]
                /\ tasks' = AfterSave(t)
           ELSE /\ sv' = [sv EXCEPT ![t] = [stage |-> "open", rec |-> sv[t].rec,
                                            doc |-> doc]]
                /\ UNCHANGED tasks
    /\ UNCHANGED <<cfg, pc, domain_data, visited_urls, urls_to_visit, file,
                   robots_cache, pending, engine, clock, killed, hist, gp, rb, call, loopVars,
                   dashVars>>

\* open(json_filepath, 'w'): the file is cut to nothing
SaveOpen(t) ==
    /\ Running
    /\ sv[t].stage = "open"
    /\ file' = FileEmpty
    /\ sv' = [sv EXCEPT ![t].stage = "close"]
    /\ UNCHANGED <<cfg, pc, domain_data, visited_urls, urls_to_visit, tasks,
                   robots_cache, pending, engine, clock, killed, hist, gp, rb, call, loopVars,
                   dashVars>>

\* json.dump and close: the document is written from offset 0.  If another
\* thread wrote through its own handle since this one opened the file, the
\* bytes overlay: this thread's document, or the other's tail after it.
WriteOutcomes(f, doc) ==
    IF f.kind \in {"doc", "garbage"} THEN {doc, FileGarbage} ELSE {doc}

SaveClose(t) ==
    /\ Running
    /\ sv[t].stage = "close"
    /\ \E out \in WriteOutcomes(file, sv[t].doc) :
          /\ file' = out
          /\ hist' = [hist EXCEPT !.flushed = Flushed(out)]
    /\ sv' = [sv EXCEPT ![t] = SaveIdle]
    /\ tasks' = AfterSave(t)
    /\ UNCHANGED <<cfg, pc, domain_data, visited_urls, urls_to_visit,
                   robots_cache, pending, engine, clock, killed, gp, rb, call, loopVars,
                   dashVars>>

\* save_results: the document made of the whole catalog
SnapshotOntoFile(dd) ==
    Document(ExistingData(file).domains \o CatalogValues(dd),
             Len(ExistingData(file).domains) + Cardinality(DOMAIN dd))

Snapshot(dd) == Document(CatalogValues(dd), Cardinality(DOMAIN dd))

\* save_results is called: the document is made and the file is opened next
StartSave(doc) ==
    sv' = [sv EXCEPT ![MainThread] = [stage |-> "open", rec |-> NoRecord, doc |-> doc]]

StartSaveResults == StartSave(Snapshot(domain_data))

\* The flush of thread t is save_single_domain, whose body is one try with
\* `except Exception` (the error is logged), or it is the save_results of
\* src/crawler.py's loop, which sits in the try of the loop body; any other
\* save_results has no handler around it, in itself or in crawl()
FlushErrorCaught(t) ==
    \/ t # MainThread
    \/ sv[t].rec # NoRecord
    \/ (cfg.variant = "basic" /\ pc = "b_loop")

\* open(json_filepath, 'w') raises (permission denied), or json.dump or the
\* close does (disk full; the file stays as the open left it).  A caught
\* error lets the thread go on; one that is not caught leaves crawl().  The
\* save_results in the loop of src/rw_crawler.py is in the try of the loop:
\* its error ends the loop and the finally runs.
SaveFail(t) ==
    /\ Running
    /\ sv[t].stage \in {"open", "close"}
    /\ IF FlushErrorCaught(t)
       THEN /\ sv' = [sv EXCEPT ![t] = SaveIdle]
            /\ tasks' = AfterSave(t)
            /\ hist' = [hist EXCEPT !.flush_failed = TRUE]
            /\ UNCHANGED <<pc, browser, crawler_state>>
       ELSE IF cfg.variant = "selenium" /\ pc = "s_loop"
       THEN /\ browser' = IF use_selenium THEN close_selenium_drivers(browser)
                           ELSE browser
            /\ StartSaveResults
            /\ pc' = "return"
            /\ hist' = [hist EXCEPT !.flush_failed = TRUE]
            /\ UNCHANGED <<tasks, crawler_state>>
       ELSE /\ sv' = [sv EXCEPT ![t] = SaveIdle]
            /\ pc' = "crashed"
            /\ hist' = [hist EXCEPT !.flush_failed = TRUE, !.raised = "save_results"]
            /\ crawler_state' = AfterMain(crawler_state)
            /\ UNCHANGED <<tasks, browser>>
    /\ UNCHANGED <<cfg, domain_data, visited_urls, urls_to_visit, file,
                   robots_cache, pending, engine, clock, killed, gp, rb, call,
                   total_pages, searchers, discovered_domains, new_links, dash>>

MainIdle == Running /\ sv[MainThread].stage = "idle"

\* A strategy of crawl()'s thread found `name`: unless the catalog has the
\* normalized domain (or the strategy does not look), the record is stored
\* and save_single_domain is called
Discover(name, u, title, looks) ==
    LET nd == normalize_domain(name)
        rec == DomainRecord(nd, u, title, clock)
    IN  IF looks /\ nd \in DOMAIN domain_data
        THEN UNCHANGED <<domain_data, sv, clock>>
        ELSE /\ domain_data' = DictSet(domain_data, nd, rec)
             /\ sv' = [sv EXCEPT ![MainThread] = [stage |-> "read", rec |-> rec,
                                                  doc |-> FileMissing]]
             /\ clock' = clock + 1

\* A strategy fails as a whole (the service is unreachable, refuses or
\* blocks): the `except Exception` in the strategy's own function logs the
\* error and the function returns, so crawl() goes on at `next`
CaughtRaises(next) == "crashed"

Caught(next) == next

\* history: the strategy has run, and whether it failed as a whole
Ran(h, strategy, failed) ==
    [h EXCEPT !.ran = @ \cup {strategy},
              !.failed = IF failed THEN @ \cup {strategy} ELSE @]

\* ---- step 1: certificate transparency logs ------------------------------
\* crt.sh answers with names, or the request fails and there are none
CtQuery ==
    /\ MainIdle
    /\ pc = "ct"
    /\ \E names \in CtAnswers :
          /\ pending' = names
          /\ pc' = IF names = {} THEN Caught("ct_loop") ELSE "ct_loop"
          /\ hist' = Ran(hist, "ct", names = {})
    /\ UNCHANGED <<cfg, domain_data, visited_urls, urls_to_visit, tasks, sv, file,
                   robots_cache, engine, clock, killed, gp, rb, call, loopVars, dashVars>>

\* for domain in domains_found (a set: any order)
CtHandle ==
    /\ MainIdle
    /\ pc = "ct_loop"
    /\ \E name \in pending :
          /\ Discover(name, HttpsOf(name), "Found via Certificate Transparency logs", TRUE)
          /\ pending' = pending \ {name}
    /\ UNCHANGED <<cfg, pc, visited_urls, urls_to_visit, tasks, file,
                   robots_cache, engine, killed, hist, gp, rb, call, loopVars, dashVars>>

\* the query is over; save_results; step 2: the seeds enter the queue at depth 0
CtDone ==
    /\ MainIdle
    /\ pc = "ct_loop"
    /\ pending = {}
    /\ StartSaveResults
    /\ pc' = "seed"
    /\ UNCHANGED <<cfg, domain_data, visited_urls, urls_to_visit, tasks, file,
                   robots_cache, pending, engine, clock, killed, hist, gp, rb, call, loopVars,
                   dashVars>>

PushAll(pushed, us) ==
    [u \in (DOMAIN pushed) \cup Range(us) |->
        Count(pushed, u) + Cardinality({i \in 1..Len(us) : us[i] = u})]

Seed ==
    /\ MainIdle
    /\ pc = "seed"
    /\ LET us == [i \in 1..Len(seed_domains) |-> HttpsOf(seed_domains[i])]
       IN  /\ urls_to_visit' = urls_to_visit \o [i \in 1..Len(us) |-> QueueItem(us[i], 0)]
           /\ hist' = [Enqueued(hist, "seed", NoRecord.url,
                                 [i \in 1..Len(us) |-> QueueItem(us[i], 0)])
                         EXCEPT !.pushed = PushAll(@, us)]
    /\ pc' = "queue_seed"
    /\ UNCHANGED <<cfg, domain_data, visited_urls, tasks, sv, file,
                   robots_cache, pending, engine, clock, killed, gp, rb, call, loopVars,
                   dashVars>>

\* ---- step 3: process_url_queue ------------------------------------------
InQueue == pc \in {"queue_seed", "queue_search"}

\* the loop test of process_url_queue
LoopGoesOnPagesOnly == Cardinality(visited_urls) < cfg.max_pages

LoopGoesOn == urls_to_visit # <<>> /\ Cardinality(visited_urls) < cfg.max_pages

\* The tests an item popped from the queue has to pass to join the batch
AcceptsAnyDepth(item, visited, max_depth) ==
    /\ item.url \notin visited
    /\ is_valid_url(item.url)
    /\ is_rw_domain(item.url)

AcceptsVisited(item, visited, max_depth) ==
    /\ is_valid_url(item.url)
    /\ is_rw_domain(item.url)
    /\ ~(item.depth >= max_depth)

AcceptsAnyDomain(item, visited, max_depth) ==
    /\ item.url \notin visited
    /\ is_valid_url(item.url)
    /\ ~(item.depth >= max_depth)

AcceptsDepthInclusive(item, visited, max_depth) ==
    /\ item.url \notin visited
    /\ is_valid_url(item.url)
    /\ is_rw_domain(item.url)
    /\ ~(item.depth > max_depth)

Accepts(item, visited, max_depth) ==
    /\ item.url \notin visited
    /\ is_valid_url(item.url)
    /\ is_rw_domain(item.url)
    /\ ~(item.depth >= max_depth)

\* src/rw_crawler.py, the test of its batch loop: not visited and valid
SelAccepts(item, visited) ==
    /\ item.url \notin visited
    /\ is_valid_url(item.url)

\* The for loop that builds a batch: n pops; an accepted item joins the
\* batch and its URL the visited set
RECURSIVE BuildBatch(_, _, _, _, _, _)
BuildBatch(variant, queue, visited, batch, n, max_depth) ==
    IF n = 0 \/ queue = <<>>
    THEN [queue |-> queue, visited |-> visited, batch |-> batch]
    ELSE IF (IF variant = "selenium" THEN SelAccepts(Head(queue), visited)
             ELSE Accepts(Head(queue), visited, max_depth))
    THEN BuildBatch(variant, Tail(queue), visited \cup {Head(queue).url},
                    Append(batch, Head(queue)), n - 1, max_depth)
    ELSE BuildBatch(variant, Tail(queue), visited, batch, n - 1, max_depth)

Min(a, b) == IF a <= b THEN a ELSE b

batch_size_all(queue) == Len(queue)

\* batch_size = min(self.concurrent_requests, len(urls_to_visit))
batch_size(queue) == Min(ConcurrentRequests, Len(queue))

HandAll(handed, batch) ==
    [u \in (DOMAIN handed) \cup {batch[i].url : i \in 1..Len(batch)} |->
        Count(handed, u) + Cardinality({i \in 1..Len(batch) : batch[i].url = u})]

\* One turn of the while loop up to the submits: the batch is built and
\* every item of it is handed to a worker
PopBatch ==
    /\ MainIdle
    /\ InQueue
    /\ tasks = <<>>
    /\ LoopGoesOn
    /\ LET b == BuildBatch("multi", urls_to_visit, visited_urls, <<>>,
                           batch_size(urls_to_visit), cfg.max_depth)
       IN  /\ urls_to_visit' = b.queue
           /\ visited_urls' = b.visited
           /\ tasks' = [i \in 1..Len(b.batch) |->
                           Task(b.batch[i].url, b.batch[i].depth, "robots")]
           /\ hist' = [HandedAt(hist, b.batch) EXCEPT
                         !.handed = HandAll(@, b.batch),
                         !.handed_depth = @ \cup {b.batch[i].depth : i \in 1..Len(b.batch)},
                         !.too_deep = @ \cup TooDeep(urls_to_visit,
                                                     Len(urls_to_visit) - Len(b.queue),
                                                     cfg.max_depth)]
    /\ UNCHANGED <<cfg, pc, domain_data, sv, file, robots_cache, pending, engine,
                   clock, killed, gp, rb, call, loopVars, dashVars>>

TaskAt(t, where) == t \in 1..Len(tasks) /\ tasks[t].pc = where

\* extract_urls_from_page: check_robots_txt finds the domain in the cache or not
TaskRobotsLookup(t) ==
    /\ Running
    /\ TaskAt(t, "robots")
    /\ LET d == extract_domain(tasks[t].url)
       IN  /\ tasks' = [tasks EXCEPT ![t].pc =
                        IF ~cfg.respect_robots THEN "fetch"
                        ELSE IF d \notin DOMAIN robots_cache THEN "robots_fetch"
                        ELSE IF robots_cache[d] THEN "fetch"
                        ELSE "done"]
           /\ hist' = IF ~cfg.respect_robots
                      THEN GateAnswered(hist, tasks[t].url, d, FALSE, TRUE)
                      ELSE IF d \in DOMAIN robots_cache
                      THEN GateAnswered(hist, tasks[t].url, d, FALSE, robots_cache[d])
                      ELSE hist
    /\ UNCHANGED <<cfg, pc, domain_data, visited_urls, urls_to_visit, sv, file,
                   robots_cache, pending, engine, clock, killed, gp, rb, call, loopVars,
                   dashVars>>

\* check_robots_txt asks for robots.txt and caches the decision
TaskRobotsFetch(t) ==
    /\ Running
    /\ TaskAt(t, "robots_fetch")
    /\ LET d == extract_domain(tasks[t].url)
       IN  \E resp \in {[kind |-> "error", status |-> 0, body |-> BodyEmpty],
                        SiteRobots(cfg.world, d)} :
              /\ robots_cache' = DictSet(robots_cache, d, RobotsDecision(resp))
              /\ tasks' = [tasks EXCEPT ![t].pc =
                              IF RobotsDecision(resp) THEN "fetch" ELSE "done"]
              /\ hist' = GateAnswered(hist, tasks[t].url, d, TRUE, RobotsDecision(resp))
    /\ UNCHANGED <<cfg, pc, domain_data, visited_urls, urls_to_visit, sv, file,
                   pending, engine, clock, killed, gp, rb, call, loopVars, dashVars>>

\* history: the page of task t was fetched
Fetched(t) ==
    [hist EXCEPT
        !.fetched = @ \cup {tasks[t].url},
        !.together = @ \cup
           {extract_domain(tasks[t].url) : o \in
               {o \in 1..Len(tasks) :
                   /\ o # t
                   /\ tasks[o].url \in hist.fetched
                   /\ extract_domain(tasks[o].url) = extract_domain(tasks[t].url)}}]

\* src/rw_crawler.py process_url: an invalid or foreign URL returns False;
\* fetch_and_parse_page gives the page or nothing; the links of the page
\* join the queue from the worker, one level deeper, if depth < max_depth
\* fetch_and_parse_page takes the browser for some pages: fetch_with_selenium
\* asks init_selenium_driver for the 'general' driver, which looks for it in
\* self.drivers ("fetch") and, not finding it, makes one ("driver") with no
\* second look
SelFetch(t) ==
    IF tasks[t].pc = "fetch" /\ ~(is_valid_url(tasks[t].url) /\ is_rw_domain(tasks[t].url))
    THEN /\ tasks' = [tasks EXCEPT ![t].pc = "done"]
         /\ UNCHANGED <<urls_to_visit, hist, browser>>
    ELSE \E with_browser \in BOOLEAN, got \in BOOLEAN, outcome \in WebDriverOutcomes :
         IF /\ tasks[t].pc = "fetch"
            /\ use_selenium /\ with_browser
            /\ "general" \notin DOMAIN browser.drivers
         THEN /\ tasks' = [tasks EXCEPT ![t].pc = "driver"]
              /\ UNCHANGED <<urls_to_visit, hist, browser>>
         ELSE
            /\ browser' = IF tasks[t].pc = "driver"
                           THEN NewDriver(browser, "general", outcome)
                           ELSE browser
            /\ IF got
               THEN LET links == PageLinks(cfg.world, tasks[t].url)
                        new == IF tasks[t].depth < cfg.max_depth
                               THEN FilterSeq(links, {u \in Range(links) :
                                                         /\ u \notin visited_urls
                                                         /\ is_valid_url(u)})
                               ELSE <<>>
                        items == [i \in 1..Len(new) |->
                                    QueueItem(new[i], LinkDepth(tasks[t].depth))]
                    IN  /\ urls_to_visit' = urls_to_visit \o items
                        /\ hist' = [Enqueued(PageRequested(Fetched(t), tasks[t].url),
                                              "link", tasks[t].url, items)
                                      EXCEPT !.pushed = PushAll(@, new)]
                        /\ tasks' = [tasks EXCEPT ![t].pc = "check"]
               ELSE /\ tasks' = [tasks EXCEPT ![t].pc = "done"]
                    /\ hist' = PageRequested(hist, tasks[t].url)
                    /\ UNCHANGED urls_to_visit

\* get_page_content returns the page or None
TaskFetch(t) ==
    /\ Running
    /\ TaskAt(t, "fetch") \/ TaskAt(t, "driver")
    /\ IF cfg.variant = "selenium"
       THEN SelFetch(t)
       ELSE /\ \E got \in BOOLEAN :
                  IF got
                  THEN /\ tasks' = [tasks EXCEPT ![t].pc = "check"]
                       /\ hist' = PageRequested(Fetched(t), tasks[t].url)
                  ELSE /\ tasks' = [tasks EXCEPT ![t].pc = "done"]
                       /\ hist' = PageRequested(hist, tasks[t].url)
            /\ UNCHANGED <<urls_to_visit, browser>>
    /\ UNCHANGED <<cfg, pc, domain_data, visited_urls, sv, file,
                   robots_cache, pending, engine, clock, killed, gp, rb, call,
                   total_pages, searchers, discovered_domains, dashVars>>

\* src/rw_crawler.py process_url returns True
Succeeded(t) == [tasks EXCEPT ![t].pc = "done", ![t].success = TRUE]

\* `if normalized_domain not in self.domain_data`, and the record made if so
TaskCheck(t) ==
    /\ Running
    /\ TaskAt(t, "check")
    /\ LET nd == normalize_domain(extract_domain(tasks[t].url))
       IN  IF is_rw_domain(tasks[t].url) /\ nd \notin DOMAIN domain_data
           THEN /\ tasks' = [tasks EXCEPT ![t].pc = "insert",
                                          ![t].rec = DomainRecord(nd, tasks[t].url, "page title", clock)]
                /\ clock' = clock + 1
           ELSE /\ tasks' = IF cfg.variant = "selenium" THEN Succeeded(t) ELSE AfterSave(t)
                /\ UNCHANGED clock
    /\ UNCHANGED <<cfg, pc, domain_data, visited_urls, urls_to_visit, sv, file,
                   robots_cache, pending, engine, killed, hist, gp, rb, call, loopVars,
                   dashVars>>

\* self.domain_data[normalized_domain] = domain_data; the multi-strategy
\* worker then calls save_single_domain, the one of src/rw_crawler.py returns
TaskInsert(t) ==
    /\ Running
    /\ TaskAt(t, "insert")
    /\ domain_data' = DictSet(domain_data, tasks[t].rec.domain, tasks[t].rec)
    /\ IF cfg.variant = "selenium"
       THEN /\ tasks' = Succeeded(t)
            /\ UNCHANGED sv
       ELSE /\ sv' = [sv EXCEPT ![t] = [stage |-> "read", rec |-> tasks[t].rec,
                                        doc |-> FileMissing]]
            /\ tasks' = [tasks EXCEPT ![t].pc = "save"]
    /\ UNCHANGED <<cfg, pc, visited_urls, urls_to_visit, file,
                   robots_cache, pending, engine, clock, killed, hist, gp, rb, call, loopVars,
                   dashVars>>

\* as_completed hands crawl() a finished future.
\* process_url_queue: its links join the queue one level deeper, unless
\* visited.  src/rw_crawler.py: a success counts as a page, and the loop over
\* the futures breaks once total_pages >= max_pages (the futures left run to
\* their end uncounted); after the batch, save_results if total_pages % 50 == 0.
\* After the last future of the batch the while loop turns.
Collect(t) ==
    /\ Running
    /\ TaskAt(t, "done")
    /\ LET new == IF cfg.variant = "selenium" THEN <<>>
                  ELSE FilterSeq(tasks[t].result,
                                 {u \in Range(tasks[t].result) : u \notin visited_urls})
           left == [tasks EXCEPT ![t].pc = "collected"]
           last == \A o \in 1..Len(left) : left[o].pc = "collected"
           pages == IF /\ cfg.variant = "selenium"
                       /\ tasks[t].success
                       /\ total_pages < cfg.max_pages
                    THEN total_pages + 1 ELSE total_pages
           links == [i \in 1..Len(new) |-> QueueItem(new[i], LinkDepth(tasks[t].depth))]
       IN  /\ urls_to_visit' = urls_to_visit \o links
           /\ hist' = [Enqueued(hist, "link", tasks[t].url, links)
                         EXCEPT !.pushed = PushAll(@, new)]
           /\ tasks' = IF last THEN <<>> ELSE left
           /\ total_pages' = pages
           /\ IF cfg.variant = "selenium" /\ last /\ pages % 50 = 0
              THEN StartSaveResults
              ELSE UNCHANGED sv
    /\ UNCHANGED <<cfg, pc, domain_data, visited_urls, file, robots_cache,
                   pending, engine, clock, killed, gp, rb, call, searchers, discovered_domains, browser,
                   dashVars>>

\* The visited set the next call of process_url_queue gets: crawl() makes
\* the set once and passes the same object to every call
CarriedVisitedFresh(visited) == {}

CarriedVisited(visited) == visited

\* The loop test fails: process_url_queue returns, crawl() calls save_results
\* and goes to its next step
QueueExit ==
    /\ MainIdle
    /\ InQueue
    /\ tasks = <<>>
    /\ ~LoopGoesOn
    /\ StartSaveResults
    /\ visited_urls' = CarriedVisited(visited_urls)
    /\ pc' = IF pc = "queue_seed" THEN "brute"
             ELSE IF engine < NumEngines THEN "search" ELSE "final"
    /\ engine' = IF pc = "queue_search" /\ engine < NumEngines THEN engine + 1 ELSE engine
    /\ UNCHANGED <<cfg, domain_data, urls_to_visit, tasks, file,
                   robots_cache, pending, clock, killed, hist, gp, rb, call, loopVars,
                   dashVars>>

\* ---- step 4: common subdomain patterns ----------------------------------
\* new_domains_to_test: every label before every catalog key and every seed
SubdomainCandidates(dd) ==
    {<<common_subdomains[i]>> \o base :
        i \in 1..Len(common_subdomains),
        base \in (DOMAIN dd) \cup Range(seed_domains)}

\* The futures are submitted; those whose probe says the domain exists are
\* left to handle, in the order they complete.  With the network down every
\* probe raises and test_domain_exists answers False for every candidate.
BruteForce ==
    /\ MainIdle
    /\ pc = "brute"
    /\ \E up \in BOOLEAN :
          /\ pending' = {c \in SubdomainCandidates(domain_data) :
                            IF up
                            THEN test_domain_exists(ProbeAnswers(c).https,
                                                    ProbeAnswers(c).http)
                            ELSE test_domain_exists(TransportError, TransportError)}
          /\ pc' = IF up THEN "brute_loop" ELSE Caught("brute_loop")
          /\ hist' = Ran(hist, "brute", ~up)
    /\ UNCHANGED <<cfg, domain_data, visited_urls, urls_to_visit, tasks, sv, file,
                   robots_cache, engine, clock, killed, gp, rb, call, loopVars, dashVars>>

BruteHandle ==
    /\ MainIdle
    /\ pc = "brute_loop"
    /\ \E name \in pending :
          /\ Discover(name, HttpsOf(name), "Found via subdomain enumeration", TRUE)
          /\ pending' = pending \ {name}
    /\ UNCHANGED <<cfg, pc, visited_urls, urls_to_visit, tasks, file,
                   robots_cache, engine, killed, hist, gp, rb, call, loopVars, dashVars>>

BruteDone ==
    /\ MainIdle
    /\ pc = "brute_loop"
    /\ pending = {}
    /\ StartSaveResults
    /\ pc' = "zone"
    /\ UNCHANGED <<cfg, domain_data, visited_urls, urls_to_visit, tasks, file,
                   robots_cache, pending, engine, clock, killed, hist, gp, rb, call, loopVars,
                   dashVars>>

\* ---- step 5: DNS zone transfer -------------------------------------------
\* The name servers refuse (or resolving them fails), or one hands out records
ZoneTransfer ==
    /\ MainIdle
    /\ pc = "zone"
    /\ \E ok \in BOOLEAN :
          /\ pending' = IF ok THEN Range(ZoneNames) ELSE {}
          /\ pc' = IF ok THEN "zone_loop" ELSE Caught("zone_loop")
          /\ hist' = Ran(hist, "zone", ~ok)
    /\ UNCHANGED <<cfg, domain_data, visited_urls, urls_to_visit, tasks, sv, file,
                   robots_cache, engine, clock, killed, gp, rb, call, loopVars, dashVars>>

\* An A record of a .rw name: the record is stored without a look at the catalog
ZoneHandle ==
    /\ MainIdle
    /\ pc = "zone_loop"
    /\ \E name \in pending :
          /\ IF is_rw_domain(HttpOf(name))
             THEN Discover(name, HttpOf(name), "Found via DNS zone transfer", FALSE)
             ELSE UNCHANGED <<domain_data, sv, clock>>
          /\ pending' = pending \ {name}
    /\ UNCHANGED <<cfg, pc, visited_urls, urls_to_visit, tasks, file,
                   robots_cache, engine, killed, hist, gp, rb, call, loopVars, dashVars>>

ZoneDone ==
    /\ MainIdle
    /\ pc = "zone_loop"
    /\ pending = {}
    /\ pc' = "search"
    /\ UNCHANGED <<cfg, domain_data, visited_urls, urls_to_visit, tasks, sv, file,
                   robots_cache, pending, engine, clock, killed, hist, gp, rb, call, loopVars,
                   dashVars>>

\* ---- step 6: search engines ----------------------------------------------
\* search_engine_crawl: the links of the result pages that are valid, .rw
\* and not visited enter the queue at depth 0; a blocked engine gives none
SearchEngineCrawl ==
    /\ MainIdle
    /\ pc = "search"
    /\ \E ok \in BOOLEAN :
          LET links == IF ok THEN SearchLinks(cfg.world) ELSE <<>>
              valid == FilterSeq(links, {u \in Range(links) :
                                            /\ is_valid_url(u)
                                            /\ is_rw_domain(u)
                                            /\ u \notin visited_urls})
          IN  /\ urls_to_visit' = urls_to_visit \o
                    [i \in 1..Len(valid) |-> QueueItem(valid[i], 0)]
              /\ hist' = [Enqueued(Ran(hist, search_engines[engine], ~ok), "search",
                                    NoRecord.url,
                                    [i \in 1..Len(valid) |-> QueueItem(valid[i], 0)])
                            EXCEPT !.pushed = PushAll(@, valid),
                                   !.search_fed = @ \cup Range(valid)]
              /\ pc' = IF ok THEN "queue_search" ELSE Caught("queue_search")
    /\ UNCHANGED <<cfg, domain_data, visited_urls, tasks, sv, file,
                   robots_cache, pending, engine, clock, killed, gp, rb, call, loopVars,
                   dashVars>>

(***************************************************************************)
(* The other crawl loops                                                   *)
(***************************************************************************)
LoopTest == urls_to_visit # <<>> /\ total_pages < cfg.max_pages

\* ---- src/rw_crawler.py: crawl() ------------------------------------------
\* The search futures are submitted, one per engine; a blocked engine has no
\* result links
SelSubmit ==
    /\ MainIdle
    /\ pc = "s_search"
    /\ \E ok \in [1..NumEngines -> BOOLEAN], out \in [1..NumEngines -> WebDriverOutcomes] :
          /\ browser' = IF use_selenium THEN InitDrivers(browser, NumEngines, out)
                         ELSE browser
          /\ searchers' = [e \in 1..NumEngines |->
                              [pc |-> "run",
                               links |-> IF /\ ok[e]
                                            /\ (use_selenium =>
                                                  search_engines[e] \in DOMAIN browser'.drivers)
                                         THEN SearchLinks(cfg.world) ELSE <<>>]]
    /\ pc' = "s_loop"
    /\ UNCHANGED <<cfg, domain_data, visited_urls, urls_to_visit, tasks, sv, file,
                   robots_cache, pending, engine, clock, killed, hist, gp, rb, call,
                   total_pages, discovered_domains, dashVars>>

\* search_engine_crawl of engine e looks at its next link: valid, .rw and
\* `not in visited_urls`, or it is passed over
SearcherCheck(e) ==
    /\ Running
    /\ pc = "s_loop"
    /\ searchers[e].pc = "run"
    /\ LET links == searchers[e].links
       IN  searchers' = [searchers EXCEPT ![e] =
              IF links = <<>> THEN SearcherIdle
              ELSE IF /\ is_valid_url(Head(links))
                      /\ is_rw_domain(Head(links))
                      /\ Head(links) \notin visited_urls
              THEN [pc |-> "append", links |-> links]
              ELSE [pc |-> "run", links |-> Tail(links)]]
    /\ UNCHANGED <<cfg, pc, domain_data, visited_urls, urls_to_visit, tasks, sv, file,
                   robots_cache, pending, engine, clock, killed, hist, gp, rb, call,
                   total_pages, discovered_domains, browser, dashVars>>

\* urls_to_visit.append(url_data); visited_urls.add(url_data[0])
SearcherAppend(e) ==
    /\ Running
    /\ pc = "s_loop"
    /\ searchers[e].pc = "append"
    /\ LET u == Head(searchers[e].links)
       IN  /\ urls_to_visit' = Append(urls_to_visit, QueueItem(u, 0))
           /\ visited_urls' = visited_urls \cup {u}
           /\ hist' = [Enqueued(hist, "search", NoRecord.url, <<QueueItem(u, 0)>>)
                         EXCEPT !.pushed = PushAll(@, <<u>>),
                                    !.search_fed = @ \cup {u}]
    /\ searchers' = [searchers EXCEPT ![e] = [pc |-> "run", links |-> Tail(@.links)]]
    /\ UNCHANGED <<cfg, pc, domain_data, tasks, sv, file, robots_cache, pending,
                   engine, clock, killed, gp, rb, call, total_pages, discovered_domains, browser,
                   dashVars>>

\* the pool of the search futures has been left
SearchersDone == \A e \in 1..NumEngines : searchers[e].pc = "done"

\* One turn of the while loop up to the submits; an empty batch is `continue`
SelPopBatch ==
    /\ MainIdle
    /\ pc = "s_loop"
    /\ SearchersDone
    /\ tasks = <<>>
    /\ LoopTest
    /\ LET b == BuildBatch("selenium", urls_to_visit, visited_urls, <<>>,
                           batch_size(urls_to_visit), cfg.max_depth)
       IN  /\ urls_to_visit' = b.queue
           /\ visited_urls' = b.visited
           /\ tasks' = [i \in 1..Len(b.batch) |->
                           Task(b.batch[i].url, b.batch[i].depth, "fetch")]
           /\ hist' = [HandedAt(hist, b.batch) EXCEPT
                         !.handed = HandAll(@, b.batch),
                         !.handed_depth = @ \cup {b.batch[i].depth : i \in 1..Len(b.batch)},
                         !.too_deep = @ \cup TooDeep(urls_to_visit,
                                                     Len(urls_to_visit) - Len(b.queue),
                                                     cfg.max_depth)]
    /\ UNCHANGED <<cfg, pc, domain_data, sv, file, robots_cache, pending, engine,
                   clock, killed, gp, rb, call, loopVars, dashVars>>

\* The loop test fails; finally: close_selenium_drivers, save_results
SelExit ==
    /\ MainIdle
    /\ pc = "s_loop"
    /\ SearchersDone
    /\ tasks = <<>>
    /\ ~LoopTest
    /\ browser' = IF use_selenium THEN close_selenium_drivers(browser) ELSE browser
    /\ StartSaveResults
    /\ pc' = "return"
    /\ UNCHANGED <<cfg, domain_data, visited_urls, urls_to_visit, tasks, file,
                   robots_cache, pending, engine, clock, killed, hist, gp, rb, call,
                   total_pages, searchers, discovered_domains, dashVars>>

\* ---- src/crawler.py: crawl() ---------------------------------------------
\* get_initial_urls: the engines' home pages, at depth 0
BasicSeed ==
    /\ MainIdle
    /\ pc = "b_seed"
    /\ LET us == [e \in 1..NumEngines |->
                    Url("https", <<"www", search_engines[e], "com">>, "")]
       IN  /\ urls_to_visit' = [e \in 1..NumEngines |-> QueueItem(us[e], 0)]
           /\ hist' = [Enqueued(hist, "seed", NoRecord.url, urls_to_visit')
                         EXCEPT !.pushed = PushAll(@, us)]
    /\ pc' = "b_search"
    /\ UNCHANGED <<cfg, domain_data, visited_urls, tasks, sv, file,
                   robots_cache, pending, engine, clock, killed, gp, rb, call, loopVars,
                   dashVars>>

\* search_engine_crawl of the next engine: the valid .rw links not visited
\* join the queue at depth 0
BasicSearch ==
    /\ MainIdle
    /\ pc = "b_search"
    /\ \E ok \in BOOLEAN :
          LET links == IF ok THEN SearchLinks(cfg.world) ELSE <<>>
              valid == FilterSeq(links, {u \in Range(links) :
                                            /\ is_valid_url(u)
                                            /\ is_rw_domain(u)
                                            /\ u \notin visited_urls})
          IN  /\ urls_to_visit' = urls_to_visit \o
                    [i \in 1..Len(valid) |-> QueueItem(valid[i], 0)]
              /\ hist' = [Enqueued(hist, "search", NoRecord.url,
                                    [i \in 1..Len(valid) |-> QueueItem(valid[i], 0)])
                            EXCEPT !.pushed = PushAll(@, valid),
                                   !.search_fed = @ \cup Range(valid)]
    /\ pc' = IF engine < NumEngines THEN "b_search" ELSE "b_loop"
    /\ engine' = IF engine < NumEngines THEN engine + 1 ELSE engine
    /\ UNCHANGED <<cfg, domain_data, visited_urls, tasks, sv, file,
                   robots_cache, pending, clock, killed, gp, rb, call, loopVars, dashVars>>

\* One turn of the while loop: the item popped is dropped, or its page is
\* read (requests.get answers or raises), its links join the queue one level
\* deeper, and its domain joins the catalog, which is then saved whole
BasicStep ==
    /\ MainIdle
    /\ pc = "b_loop"
    /\ LoopTest
    /\ LET item == Head(urls_to_visit)
           nd == normalize_domain(extract_domain(item.url))
       IN  IF ~Accepts(item, visited_urls, cfg.max_depth)
           THEN /\ urls_to_visit' = Tail(urls_to_visit)
                /\ hist' = [hist EXCEPT
                              !.too_deep = @ \cup TooDeep(urls_to_visit, 1, cfg.max_depth)]
                /\ UNCHANGED <<visited_urls, total_pages, domain_data, sv, clock>>
           ELSE \E got \in BOOLEAN :
                  LET links == IF got THEN PageLinks(cfg.world, item.url) ELSE <<>>
                      new == FilterSeq(links, {u \in Range(links) :
                                                  /\ is_valid_url(u)
                                                  /\ u \notin visited_urls \cup {item.url}})
                  IN  /\ visited_urls' = visited_urls \cup {item.url}
                      /\ total_pages' = total_pages + 1
                      /\ urls_to_visit' = Tail(urls_to_visit) \o
                            [i \in 1..Len(new) |-> QueueItem(new[i], LinkDepth(item.depth))]
                      /\ hist' = [Enqueued(HandedAt(PageRequested(hist, item.url), <<item>>),
                                            "link", item.url,
                                            [i \in 1..Len(new) |->
                                                QueueItem(new[i], LinkDepth(item.depth))])
                                  EXCEPT
                                    !.handed = HandAll(@, <<item>>),
                                    !.handed_depth = @ \cup {item.depth},
                                    !.pushed = PushAll(@, new),
                                    !.fetched = IF got THEN @ \cup {item.url} ELSE @]
                      /\ IF nd \notin DOMAIN domain_data
                         THEN /\ domain_data' = DictSet(domain_data, nd,
                                                   DomainRecord(nd, item.url, "", clock))
                              /\ clock' = clock + 1
                              /\ StartSave(Snapshot(domain_data'))
                         ELSE UNCHANGED <<domain_data, clock, sv>>
    /\ UNCHANGED <<cfg, pc, tasks, file, robots_cache, pending, engine, killed,
                   gp, rb, call, searchers, discovered_domains, browser, dashVars>>

BasicExit ==
    /\ MainIdle
    /\ pc = "b_loop"
    /\ ~LoopTest
    /\ StartSaveResults
    /\ pc' = "return"
    /\ UNCHANGED <<cfg, domain_data, visited_urls, urls_to_visit, tasks, file,
                   robots_cache, pending, engine, clock, killed, hist, gp, rb, call, loopVars,
                   dashVars>>

\* ---- src/crawler/crawler.py: RWCrawler.run() -------------------------------
\* self.start_urls, cut to its first two: the search page of a host that is
\* not .rw, then www.gov.rw
start_urls == <<HttpsOf(External), HttpsOf(Gov)>>

\* extract_links: the hrefs that are no javascript:, mailto: or tel: and valid
extract_links(links) ==
    FilterSeq(links, {u \in Range(links) :
                         /\ u.scheme \notin {"javascript", "mailto", "tel"}
                         /\ rw_is_valid_url(u)})

\* sorted(list(self.discovered_domains)): the hosts of the model in string order
HostsInOrder == <<External, Gov, Irembo, MailGov, OldSite, SubGov, WwwGov, WwwIrembo>>

\* RWCrawler.save_results: the document of the sorted domains; an entry of
\* its list is the domain alone
RwSnapshot(D) ==
    LET ordered == FilterSeq(HostsInOrder, D)
    IN  Document([i \in 1..Len(ordered) |-> [domain |-> ordered[i]]], Cardinality(D))

PagesCountedNot(pages) == pages

\* pages_crawled += 1
PagesCounted(pages) == pages + 1

RwStart ==
    /\ MainIdle
    /\ pc = "r_start"
    /\ urls_to_visit' = [i \in 1..Len(start_urls) |-> QueueItem(start_urls[i], 0)]
    /\ hist' = [hist EXCEPT !.pushed = PushAll(@, start_urls)]
    /\ crawler_state' = RunStarts(ResetCounters(crawler_state), clock)
    /\ pc' = "r_loop"
    /\ UNCHANGED <<cfg, domain_data, visited_urls, tasks, sv, file,
                   robots_cache, pending, engine, clock, killed, gp, rb, call, loopVars,
                   new_links, dash>>

\* run(), up to the return of crawl_url: a visited URL is dropped; any other
\* goes to crawl_url, which marks it visited, asks the gate, requests the
\* page, notes the .rw domain (and its count in crawler_state) and returns
\* the links
RwStep ==
    /\ MainIdle
    /\ pc = "r_loop"
    /\ LoopTest
    /\ LET u == Head(urls_to_visit).url
       IN  IF u \in visited_urls
           THEN /\ urls_to_visit' = Tail(urls_to_visit)
                /\ UNCHANGED <<pc, visited_urls, hist, robots_cache,
                               discovered_domains, crawler_state, new_links>>
           ELSE \E rd \in RpReads, got \in BOOLEAN :
                  LET gate == is_allowed_by_robots(cfg.respect_robots, robots_cache,
                                                   u.host, rd)
                      page == gate.result /\ got
                      links == IF page THEN extract_links(PageLinks(cfg.world, u))
                               ELSE <<>>
                  IN  /\ visited_urls' = visited_urls \cup {u}
                      /\ robots_cache' = gate.cache
                      /\ discovered_domains' =
                            IF page /\ is_rw_domain(u)
                            THEN discovered_domains \cup {u.host}
                            ELSE discovered_domains
                      /\ crawler_state' =
                            IF page /\ is_rw_domain(u) /\ u.host \notin discovered_domains
                            THEN [crawler_state EXCEPT !.domains_discovered =
                                     Cardinality(discovered_domains')]
                            ELSE crawler_state
                      /\ urls_to_visit' = Tail(urls_to_visit)
                      /\ new_links' = [waiting |-> TRUE, links |-> links]
                      /\ hist' = [(IF gate.result
                                     THEN PageRequested(
                                             GateAnswered(hist, u, u.host, gate.requested, TRUE), u)
                                     ELSE GateAnswered(hist, u, u.host, gate.requested, FALSE))
                                    EXCEPT !.handed = HandAll(@, <<QueueItem(u, 0)>>),
                                           !.fetched = IF page THEN @ \cup {u} ELSE @]
                      /\ pc' = "r_count"
    /\ UNCHANGED <<cfg, domain_data, tasks, sv, file, pending, engine, clock,
                   killed, gp, rb, call, total_pages, searchers, browser, dash>>

\* run(), after crawl_url returned: the page is counted, in pages_crawled and
\* in crawler_state; the links not visited join the queue; every 100 pages
\* the results are saved
RwCount ==
    /\ MainIdle
    /\ pc = "r_count"
    /\ LET new == FilterSeq(new_links.links,
                            {l \in Range(new_links.links) : l \notin visited_urls})
       IN  /\ total_pages' = PagesCounted(total_pages)
           /\ crawler_state' = [crawler_state EXCEPT !.pages_crawled = total_pages']
           /\ urls_to_visit' = urls_to_visit \o
                 [i \in 1..Len(new) |-> QueueItem(new[i], 0)]
           /\ hist' = [hist EXCEPT !.pushed = PushAll(@, new)]
           /\ IF total_pages' % 100 = 0
              THEN StartSave(RwSnapshot(discovered_domains))
              ELSE UNCHANGED sv
    /\ new_links' = NoLinks
    /\ pc' = "r_loop"
    /\ UNCHANGED <<cfg, domain_data, visited_urls, tasks, file, robots_cache, pending,
                   engine, clock, killed, gp, rb, call, searchers, discovered_domains,
                   browser, dash>>

\* The loop test fails: the final save
RwExit ==
    /\ MainIdle
    /\ pc = "r_loop"
    /\ ~LoopTest
    /\ StartSave(RwSnapshot(discovered_domains))
    /\ pc' = "return"
    /\ UNCHANGED <<cfg, domain_data, visited_urls, urls_to_visit, tasks, file,
                   robots_cache, pending, engine, clock, killed, hist, gp, rb, call, loopVars,
                   dashVars>>

(***************************************************************************)
(* src/crawler/dashboard.py: /api/start and the thread of run_crawler      *)
(***************************************************************************)
\* The threads of run_crawler that have been started and have not ended
ActiveRuns == {k \in 1..NumRequests : dash.runs[k].pc \notin {"none", "ended"}}

InitDash ==
    /\ CrawlOff /\ gp = GpIdle /\ rb = RbIdle /\ call = CallIdle
    /\ crawler_state = CrawlerStateStart
    /\ new_links = NoLinks
    /\ dash = DashStart

\* start_crawler, `if not crawler_state["is_running"]`: the request goes on
\* to start a thread, or answers already_running
StartTest(r) ==
    /\ dash.requests[r].pc = "idle"
    /\ dash' = [dash EXCEPT !.requests[r] =
                       IF ~crawler_state.is_running
                       THEN [pc |-> "spawn", status |-> "",
                             arrived_active |-> ActiveRuns # {}]
                       ELSE [pc |-> "done", status |-> "already_running",
                             arrived_active |-> ActiveRuns # {}]]
    /\ UNCHANGED <<crawlVars, gp, rb, call, crawler_state, new_links>>

\* threading.Thread(target=run_crawler), thread.start(), {"status": "started"}
StartSpawn(r) ==
    /\ dash.requests[r].pc = "spawn"
    /\ dash' = [dash EXCEPT !.requests[r].pc = "done",
                            !.requests[r].status = "started",
                            !.runs[r].pc = "begin"]
    /\ UNCHANGED <<crawlVars, gp, rb, call, crawler_state, new_links>>

\* run_crawler: is_running = True, start_time = now
RunBegin(k) ==
    /\ dash.runs[k].pc = "begin"
    /\ crawler_state' = RunStarts(crawler_state, clock)
    /\ dash' = [dash EXCEPT !.runs[k].pc = "made"]
    /\ UNCHANGED <<crawlVars, gp, rb, call, new_links>>

\* run_crawler zeroes the counters and RWCrawler() does it again
RunMade(k) ==
    /\ dash.runs[k].pc = "made"
    /\ crawler_state' = ResetCounters(crawler_state)
    /\ dash' = [dash EXCEPT !.runs[k].pc = "run"]
    /\ UNCHANGED <<crawlVars, gp, rb, call, new_links>>

\* crawler.run() counts a page: its pages_crawled goes to crawler_state
RunCrawl(k) ==
    /\ dash.runs[k].pc = "run"
    /\ dash.runs[k].pages < DashMaxPages
    /\ dash' = [dash EXCEPT !.runs[k].pages = PagesCounted(@)]
    /\ crawler_state' = [crawler_state EXCEPT !.pages_crawled = dash'.runs[k].pages]
    /\ UNCHANGED <<crawlVars, gp, rb, call, new_links>>

\* crawler.run() returns or raises: the finally clause is next
RunLeaves(k) ==
    /\ dash.runs[k].pc = "run"
    /\ \E raised \in BOOLEAN :
          dash' = [dash EXCEPT !.runs[k].pc = "finally", !.runs[k].raised = raised]
    /\ UNCHANGED <<crawlVars, gp, rb, call, crawler_state, new_links>>

\* finally: is_running = False, start_time = None; the thread ends
RunFinally(k) ==
    /\ dash.runs[k].pc = "finally"
    /\ crawler_state' = RunEnds(crawler_state)
    /\ dash' = [dash EXCEPT !.runs[k].pc = "ended"]
    /\ UNCHANGED <<crawlVars, gp, rb, call, new_links>>

NextDash ==
    \E r \in 1..NumRequests :
       \/ StartTest(r) \/ StartSpawn(r)
       \/ RunBegin(r) \/ RunMade(r) \/ RunCrawl(r) \/ RunLeaves(r) \/ RunFinally(r)

SpecDash == InitDash /\ [][NextDash]_vars

\* ---- the end of the run --------------------------------------------------
FinalSave ==
    /\ MainIdle
    /\ pc = "final"
    /\ StartSaveResults
    /\ pc' = "return"
    /\ UNCHANGED <<cfg, domain_data, visited_urls, urls_to_visit, tasks, file,
                   robots_cache, pending, engine, clock, killed, hist, gp, rb, call, loopVars,
                   dashVars>>

Return ==
    /\ MainIdle
    /\ pc = "return"
    /\ pc' = "done"
    /\ crawler_state' = AfterMain(crawler_state)
    /\ UNCHANGED <<cfg, domain_data, visited_urls, urls_to_visit, tasks, sv, file,
                   robots_cache, pending, engine, clock, killed, hist, gp, rb, call, loopVars,
                   new_links, dash>>

\* The process is killed: nothing runs after it, the file stays as it is
Kill ==
    /\ Running
    /\ pc \notin {"done", "crashed", "off"}
    /\ killed' = TRUE
    /\ UNCHANGED <<cfg, pc, domain_data, visited_urls, urls_to_visit, tasks, sv, file,
                   robots_cache, pending, engine, clock, hist, gp, rb, call, loopVars,
                   dashVars>>

Init == InitCrawl /\ gp = GpIdle /\ rb = RbIdle /\ call = CallIdle /\ DashOff

\* A step of the run itself
Run ==
    \/ CtQuery \/ CtHandle \/ CtDone \/ Seed
    \/ PopBatch \/ QueueExit
    \/ \E t \in 1..ConcurrentRequests :
          \/ TaskRobotsLookup(t) \/ TaskRobotsFetch(t) \/ TaskFetch(t)
          \/ TaskCheck(t) \/ TaskInsert(t) \/ Collect(t)
    \/ \E t \in Threads : SaveRead(t) \/ SaveOpen(t) \/ SaveClose(t) \/ SaveFail(t)
    \/ BruteForce \/ BruteHandle \/ BruteDone
    \/ ZoneTransfer \/ ZoneHandle \/ ZoneDone
    \/ SearchEngineCrawl \/ FinalSave \/ Return
    \/ SelSubmit \/ SelPopBatch \/ SelExit
    \/ \E e \in 1..NumEngines : SearcherCheck(e) \/ SearcherAppend(e)
    \/ BasicSeed \/ BasicSearch \/ BasicStep \/ BasicExit
    \/ RwStart \/ RwStep \/ RwCount \/ RwExit

Next == Run \/ Kill

Spec == Init /\ [][Next]_vars

\* The run under its scheduling: the interpreter and the pools' threads go on
\* as long as some thread has a step to take, and every call to the network
\* or the disk returns (with an answer, an error or a timeout).  A kill may
\* come at any time and need not come.
SpecLive == Init /\ [][Next]_vars /\ WF_vars(Run)

(***************************************************************************)
(* Properties                                                              *)
(***************************************************************************)
\* C8: Politeness fail-open.  Whenever the request for robots.txt of a domain
\* fails with a network error, the gate answers allowed (TRUE) for that
\* domain, in check_robots_txt and in RWCrawler.is_allowed_by_robots; the
\* decision check_robots_txt leaves in its cache for the domain is allowed too.
PolitenessFailOpen ==
    (rb.last.requested /\ rb.last.kind = "error") =>
        /\ rb.last.result = TRUE
        /\ rb.last.fn = "check_robots_txt" =>
              /\ rb.last.domain \in DOMAIN rb.cache
              /\ rb.cache[rb.last.domain] = TRUE

\* a call of check_robots_txt whose request for robots.txt raised
RobotsRequestFailed ==
    /\ rb.last.fn = "check_robots_txt"
    /\ rb.respect_robots
    /\ rb.last.requested
    /\ rb.last.kind = "error"

\* C9: Robots rule.  check_robots_txt answers FALSE for a domain exactly when
\* its robots.txt came with status 200 and has a `User-agent: *` group (the
\* lines after that line up to the next User-agent line) with the rule
\* `Disallow: /`; a body with only `Disallow: /private`, or with `Disallow: /`
\* under another agent's group, is answered TRUE.
RobotsRuleIsExact ==
    LET body == rb.last.body
        InStarGroup(i, j) ==
            /\ i < j
            /\ body[i] = UaLine("*")
            /\ \A k \in (i + 1)..(j - 1) : Head(body[k]) # "User-agent: "
        HasBlanketDisallow ==
            \E i, j \in 1..Len(body) :
                InStarGroup(i, j) /\ body[j] = DisallowLine(<<"/">>)
    IN  (rb.last.fn = "check_robots_txt" /\ rb.last.requested) =>
            (rb.last.result = FALSE <=>
                (rb.last.kind = "response" /\ rb.last.status = 200 /\ HasBlanketDisallow))

\* C10: Bounded retry.  Whatever the responses and transport errors,
\* get_page_content makes at most 3 requests for one URL; it ends with the
\* content or with None, and with None if no request was answered 200.
BoundedRetry ==
    /\ gp.requests <= retries
    /\ Len(gp.log) = gp.requests
    /\ gp.pc = "loop" => gp.attempt < retries /\ gp.result = "pending"
    /\ gp.pc = "done" =>
          /\ gp.result \in {"content", "none"}
          /\ (\A i \in 1..Len(gp.log) : gp.log[i] # Ok200) => gp.result = "none"

\* three requests, none answered 200: the call is over and returned None
GaveUpAfterThreeRequests ==
    /\ gp.pc = "done"
    /\ gp.requests = 3
    /\ \A i \in 1..Len(gp.log) : gp.log[i] # Ok200
    /\ gp.result = "none"

\* C1: First discovery wins.  In the multi-strategy crawler, once the catalog
\* holds a record for a normalized domain, no step of any strategy removes or
\* changes that record (url, title, discovered_at).
FirstDiscoveryWins ==
    [][cfg.variant = "multi" =>
          \A d \in DOMAIN domain_data :
              d \in DOMAIN domain_data' /\ domain_data'[d] = domain_data[d]]_vars

\* C2: When two workers of one batch fetched pages of the same normalized
\* domain, then at the end of the run, whatever the interleaving was, the
\* catalog holds one record for that domain and the domains list of the
\* document on disk lists that domain exactly once.
OneRecordForRacedDomain ==
    pc = "done" =>
        \A d \in hist.together :
            /\ d \in DOMAIN domain_data
            /\ domain_data[d].domain = d
            /\ file.kind = "doc"
            /\ Cardinality({i \in 1..Len(file.domains) : file.domains[i].domain = d}) = 1

\* the run is over and two workers of one batch had fetched pages of one domain
RunEndedAfterRace == pc = "done" /\ hist.together # {}

\* C3: Dedup.  Within one run a URL is handed to a fetch worker at most once,
\* however often it was pushed into the queue; the URLs of the workers of a
\* batch differ from one another and are all marked visited.
HandedAtMostOnce ==
    /\ \A u \in DOMAIN hist.handed : hist.handed[u] <= 1
    /\ \A t1, t2 \in 1..Len(tasks) : t1 # t2 => tasks[t1].url # tasks[t2].url
    /\ \A t \in 1..Len(tasks) : tasks[t].url \in visited_urls

\* a URL was pushed into the queue twice or more and handed to a worker once
PushedTwiceHandedOnce ==
    \E u \in DOMAIN hist.handed :
        Count(hist.pushed, u) >= 2 /\ hist.handed[u] = 1

\* C4: Frontier depth bound.  In every crawl loop, no item with
\* depth >= max_depth is handed to a fetch worker: the depth of every item
\* handed, and of every worker's item, is below max_depth, and an item popped
\* at depth >= max_depth is not handed on.
DepthBound ==
    /\ \A d \in hist.handed_depth : d < cfg.max_depth
    /\ \A t \in 1..Len(tasks) : tasks[t].depth < cfg.max_depth
    /\ \A item \in hist.too_deep :
          \A t \in 1..Len(tasks) :
              ~(tasks[t].url = item.url /\ tasks[t].depth = item.depth)

\* an item was popped at depth >= max_depth and its URL went to no worker
DroppedForDepth ==
    \E item \in hist.too_deep :
        /\ item.depth >= cfg.max_depth
        /\ Count(hist.handed, item.url) = 0

\* C5: Persistence atomicity.  If the process is killed at any step of a
\* flush, the catalog file found afterwards is a complete document (the one
\* before the flush or the new one) or is missing as it was before: it is
\* never empty, truncated or unparseable.
KilledLeavesWholeDocument ==
    (cfg.variant = "multi" /\ killed) => file.kind \in {"missing", "doc"}

\* C6: Flushed records are never lost.  Every domain that a complete document
\* on disk has held, the one found at the start of the run included, is in
\* every later document on disk.
FlushedNeverLost ==
    (cfg.variant = "multi" /\ file.kind = "doc") => hist.flushed \subseteq DocDomains(file)

\* the domains whose record a page worker of the crawl loop made
CrawlRecords == {d \in DOMAIN domain_data : domain_data[d].title = "page title"}

\* Scenario A: the multi-strategy crawler, the seed gov.rw, max_depth = 1, the
\* page of gov.rw was fetched, its links to sub.gov.rw and external.com
\* entered the queue, the queue was drained and the seed crawl is over
ScenarioA ==
    /\ cfg.variant = "multi"
    /\ cfg.world = "A"
    /\ cfg.max_depth = 1
    /\ pc = "brute"
    /\ HttpsOf(Gov) \in hist.fetched
    /\ Count(hist.pushed, HttpsOf(SubGov)) >= 1
    /\ Count(hist.pushed, HttpsOf(External)) >= 1
    /\ urls_to_visit = <<>>

\* C7 as stated: in scenario A the crawl yields exactly one new record, for
\* sub.gov.rw, and none for external.com.
ScenarioAYieldsSubdomain ==
    ScenarioA =>
        /\ CrawlRecords = {SubGov}
        /\ External \notin DOMAIN domain_data

\* C7 as amended: in scenario A the seed crawl makes a record for no domain
\* but gov.rw, the domain of the page fetched (made with the seed URL unless
\* the catalog had gov.rw already); sub.gov.rw and external.com, popped at
\* depth 1, are handed to no worker and get no record.
ScenarioAYieldsSeedOnly ==
    ScenarioA =>
        /\ CrawlRecords \subseteq {Gov}
        /\ Gov \in DOMAIN domain_data
        /\ domain_data[Gov].domain = Gov
        /\ Gov \in CrawlRecords => domain_data[Gov].url = HttpsOf(Gov)
        /\ SubGov \notin DOMAIN domain_data
        /\ External \notin DOMAIN domain_data
        /\ Count(hist.handed, HttpsOf(SubGov)) = 0
        /\ Count(hist.handed, HttpsOf(External)) = 0

\* scenario A where the record of gov.rw is the crawl's and both links were
\* popped at depth 1
ScenarioASeedRecorded ==
    /\ ScenarioA
    /\ CrawlRecords = {Gov}
    /\ QueueItem(HttpsOf(SubGov), 1) \in hist.too_deep
    /\ QueueItem(HttpsOf(External), 1) \in hist.too_deep

\* C11: Transient-error retry.  When an attempt before the last of the three
\* ends in a transport error or in a status that is neither 200 nor 429
\* (a 5xx, say), get_page_content makes a further attempt instead of giving
\* up: a call that is over has no such attempt as its last one.
TransientErrorRetried ==
    gp.pc = "done" =>
        \A i \in 1..Len(gp.log) :
            (i < retries /\ gp.log[i] # Ok200 /\ gp.log[i] # TooManyRequests)
                => i < Len(gp.log)

\* Scenario C: the first attempt was answered 429, the second 200
ScenarioC ==
    /\ gp.pc = "done"
    /\ gp.log = <<TooManyRequests, Ok200>>

Ended == pc \in {"done", "crashed"} \/ killed

\* The page count the loop of the variant tests
PageCount ==
    IF cfg.variant = "multi" THEN Cardinality(visited_urls) ELSE total_pages

\* The crawl loop is at its test with nothing left to do
LoopOver ==
    /\ pc \in {"queue_seed", "queue_search", "s_loop", "b_loop", "r_loop"}
    /\ (urls_to_visit = <<>> \/ PageCount >= cfg.max_pages)

\* C13: Termination.  Every crawl run eventually ends, and the crawl loop
\* exits once the frontier is empty or the page count has reached max_pages:
\* from then on the loop pops nothing from the frontier.
Termination ==
    /\ <>Ended
    /\ [][LoopOver => Len(urls_to_visit') >= Len(urls_to_visit)]_vars

\* a run has returned from crawl() with URLs left in the frontier: its loop
\* stopped at max_pages
ReturnedAtMaxPages ==
    /\ pc = "done"
    /\ urls_to_visit # <<>>
    /\ PageCount >= cfg.max_pages

\* The number of times a URL has been handed to a fetch worker, over all URLs
RECURSIVE SumOver(_, _)
SumOver(f, S) ==
    IF S = {} THEN 0
    ELSE LET x == CHOOSE y \in S : TRUE
         IN  f[x] + SumOver(f, S \ {x})

HandedTotal == SumOver(hist.handed, DOMAIN hist.handed)

\* C14: max_pages hard cap.  In every run the number of URLs handed to fetch
\* workers never exceeds max_pages.
HandedWithinMaxPages == HandedTotal <= cfg.max_pages

\* The discovery strategies of the multi-strategy crawl(), in its order
Strategies == {"ct", "brute", "zone"} \cup {search_engines[e] : e \in 1..NumEngines}

\* C15: Strategy isolation.  When a discovery strategy fails as a whole (the
\* certificate log unreachable, every probe failing, the zone transfer
\* refused, a search engine blocking), no failure of a strategy leaves
\* crawl(): an exception that ends the run is never a strategy's, and a run
\* that returned has run every strategy and written the final snapshot.
StrategyIsolation ==
    cfg.variant = "multi" =>
        /\ pc = "crashed" => hist.raised = "save_results"
        /\ pc = "done" =>
              /\ hist.ran = Strategies
              /\ file = Snapshot(domain_data)

\* a run in which every strategy failed as a whole has returned
EveryStrategyFailed ==
    /\ cfg.variant = "multi"
    /\ pc = "done"
    /\ hist.failed = Strategies

\* C16: Persistence failure is not fatal.  When a flush of the multi-strategy
\* crawler fails, incremental or checkpoint snapshot, the run goes on to its
\* remaining strategies and its next checkpoint: the error does not end
\* crawl().
FlushFailureNotFatal ==
    (cfg.variant = "multi" /\ hist.flush_failed) => pc # "crashed"

\* C17: Headless-browser teardown.  Every browser session made during a run
\* of src/rw_crawler.py, per search engine or the shared 'general' one, has
\* been quit by the time crawl() ends, by a return or by an error.
BrowserTeardown ==
    (cfg.variant = "selenium" /\ pc \in {"done", "crashed"}) =>
        \A i \in 1..Len(browser.sessions) : browser.sessions[i].state = "quit"

\* C18: normalize_domain is idempotent,
\* normalize_domain(normalize_domain(d)) = normalize_domain(d) for every
\* domain d, one with a repeated www.www. prefix included; it strips one
\* leading literal www. and is otherwise the identity.
NormalizeIdempotent ==
    call.fn = "normalize_domain" =>
        /\ call.again = call.result
        /\ call.result = IF Len(call.arg) >= 2 /\ Head(call.arg) = "www"
                         THEN Tail(call.arg) ELSE call.arg

\* C19: is_valid_url(u) is false whenever u has no http or https scheme or
\* has an empty host, in the is_valid_url of every crawler variant.
InvalidUrlRejected ==
    (/\ call.fn = "is_valid_url"
     /\ (call.arg.scheme \notin {"http", "https"} \/ call.arg.host = <<>>))
        => ~call.result

\* C20: with respect_robots disabled the politeness gate returns true for
\* every URL, performs no robots.txt request and leaves its cache as it was
\* (empty, from the constructor).
RobotsDisabledAllowsAll ==
    ~rb.respect_robots =>
        /\ rb.last.result
        /\ ~rb.last.requested
        /\ rb.cache = EmptyDict
        /\ rb.rw_cache = EmptyDict

\* the gate was asked with respect_robots disabled about a site whose
\* robots.txt, had it been read, disallows everything
GateAskedWhileDisabled ==
    /\ ~rb.respect_robots
    /\ rb.last.fn = "check_robots_txt"
    /\ rb.last.kind = "response"
    /\ rb.last.status = 200
    /\ rb.last.body = BodyDenyAll

\* C21: the robots decision is cached once per domain.  Within one run,
\* under every interleaving of the workers, robots.txt is requested at most
\* once for a domain, and the decision returned for a domain never changes
\* after its first answer.
RobotsAskedOncePerDomain ==
    /\ \A d \in DOMAIN hist.robots_asked : hist.robots_asked[d] <= 1
    /\ \A d \in DOMAIN hist.robots_said : Cardinality(hist.robots_said[d]) <= 1

\* C22: mutual exclusion on the shared structures.  No two workers are at
\* the same time between the catalog's membership test and its insert, and
\* no two threads are at the same time between reading the catalog file and
\* writing it back.
InCheckAndInsert == {t \in 1..Len(tasks) : tasks[t].pc = "insert"}

InReadMergeWrite == {t \in DOMAIN sv : sv[t].stage \in {"open", "close"}}

MutualExclusion ==
    /\ Cardinality(InCheckAndInsert) <= 1
    /\ Cardinality(InReadMergeWrite) <= 1

\* C23: search-scraped URLs are crawled.  When a run has ended with
\* max_depth > 0 and the page count below max_pages, every URL that a
\* search-engine strategy put into the frontier at depth 0 has been handed
\* to a fetch worker: the main loop did not drop it as already visited.
SearchFedCrawled ==
    (pc = "done" /\ cfg.max_depth > 0 /\ PageCount < cfg.max_pages)
        => hist.search_fed \subseteq DOMAIN hist.handed

\* C24: gate before fetch.  Every page request of the crawl loop is for a
\* URL about which the politeness gate was asked and answered allowed; a URL
\* for which the gate answered disallow is never requested, and no link
\* enters the frontier from it.
GateBeforeFetch ==
    /\ hist.requested \subseteq hist.gate_allowed
    /\ hist.requested \cap hist.gate_denied = {}

\* The keys of the catalog: domain_data, and discovered_domains in RWCrawler
CatalogKeys == (DOMAIN domain_data) \cup discovered_domains

\* C25: insert implies immediate flush.  Every step that inserts a new
\* record into the catalog also calls the flush that carries the record to
\* the document on disk, so the flush is under way before the inserting
\* thread handles its next candidate.
InsertImpliesFlush ==
    [][\A d \in CatalogKeys' \ CatalogKeys :
          \E t \in DOMAIN sv' :
              /\ sv'[t].stage # "idle"
              /\ (sv'[t].rec.domain = d \/ d \in DocDomains(sv'[t].doc))]_vars

\* Where crawl() is while a discovery strategy runs, and before the last save
StrategyStages ==
    {"ct_loop", "queue_seed", "brute_loop", "zone_loop", "queue_search", "s_loop", "final"}

\* C26: checkpoints.  Every step by which crawl() leaves a discovery
\* strategy (certificate transparency, seed crawl, brute force, zone
\* transfer, each search engine) or completes the run calls save_results,
\* and the document it is about to write is exactly the catalog in memory.
Checkpoints ==
    [][(pc \in StrategyStages /\ pc' \notin {pc, "crashed"})
          => /\ sv'[MainThread].stage = "open"
             /\ sv'[MainThread].doc = Snapshot(domain_data')]_vars

\* C27: depth bookkeeping.  Seed and search-scraped items enter the
\* frontier at depth 0; a link of a page enters it at the depth its page was
\* handed to a worker at, plus one, in whatever order the futures of a batch
\* complete; and every item of the frontier has depth <= max_depth.
DepthBookkeeping ==
    /\ \A e \in hist.enqueued :
          /\ e.depth = IF e.kind = "link" THEN hist.handed_at[e.parent] + 1 ELSE 0
          /\ e.depth <= cfg.max_depth
    /\ \A i \in 1..Len(urls_to_visit) : urls_to_visit[i].depth <= cfg.max_depth

\* The second future of a batch was collected before the first, and its
\* links are in the frontier one level below it
LinksOfLaterFutureFirst ==
    /\ Len(tasks) = 2
    /\ tasks[2].pc = "collected" /\ tasks[1].pc # "collected"
    /\ tasks[2].depth >= 1
    /\ \E e \in hist.enqueued :
          e.kind = "link" /\ e.parent = tasks[2].url /\ e.depth = tasks[2].depth + 1

\* C28: the visited set only grows.  No step of the crawl loop or of a
\* strategy takes a URL out of it, and in the multi-strategy crawler every
\* step that is not a turn of process_url_queue's loop leaves it as it is, so
\* each call of process_url_queue starts with the set the last one left.
VisitedOnlyGrows ==
    [][/\ visited_urls \subseteq visited_urls'
       /\ (cfg.variant = "multi" /\ (~InQueue \/ pc' # pc))
             => visited_urls' = visited_urls]_vars

\* The second or a later call of process_url_queue has handed out a batch
\* while the set holds a URL an earlier call put there
VisitedCarriedIntoNextCall ==
    /\ pc = "queue_search"
    /\ tasks # <<>>
    /\ \E u \in visited_urls : \A t \in 1..Len(tasks) : tasks[t].url # u

\* A HEAD probe succeeded: it was answered, with a status below 400
ProbeSucceeds(r) == r.kind = "response" /\ r.status < 400

\* C29: brute-force existence check.  test_domain_exists answers true
\* exactly when the HTTPS probe succeeds or, the HTTPS probe not having
\* succeeded (refused with a status of 400 or more, or failed with a
\* transport error), the HTTP probe succeeds.
HttpFallbackAlwaysTried ==
    call.fn = "test_domain_exists" =>
        (call.result <=> (ProbeSucceeds(call.arg.https) \/ ProbeSucceeds(call.arg.http)))

\* A domain in canonical form: lower-case, and not starting with www.
Canonical(d) == LowerHost(d) = d /\ (d = <<>> \/ Head(d) # "www")

\* C30: catalog keys are canonical.  In every reachable state every key of
\* the catalog is lower-case, does not start with www. and is the `domain`
\* field of the record stored under it, whichever strategy inserted it; the
\* members of RWCrawler's discovered_domains are canonical too.
CatalogKeysCanonical ==
    /\ \A d \in DOMAIN domain_data : Canonical(d) /\ domain_data[d].domain = d
    /\ \A d \in discovered_domains : Canonical(d)

\* The items a step pops from the frontier: the batch loops pop from the
\* head and append nothing in the same step, the other loops pop one item
PoppedNow ==
    IF cfg.variant \in {"multi", "selenium"}
    THEN IF Len(urls_to_visit') < Len(urls_to_visit)
         THEN SubSeq(urls_to_visit, 1, Len(urls_to_visit) - Len(urls_to_visit'))
         ELSE <<>>
    ELSE IF /\ pc \in {"b_loop", "r_loop"} /\ pc' \in {pc, "r_count"}
            /\ urls_to_visit' # urls_to_visit
         THEN <<Head(urls_to_visit)>>
         ELSE <<>>

\* The URLs a step hands to a fetch worker
HandedNow == {u \in DOMAIN hist'.handed : hist'.handed[u] > Count(hist.handed, u)}

Occurrences(queue, item) == Cardinality({i \in 1..Len(queue) : queue[i] = item})

\* A popped item the policy excludes (the items of RWCrawler's queue are
\* bare URLs: they have no depth)
PolicyExcludes(item) ==
    \/ item.url \in visited_urls
    \/ ~is_valid_url(item.url)
    \/ ~is_rw_domain(item.url)
    \/ (cfg.variant # "rwcrawler" /\ item.depth >= cfg.max_depth)

\* The item is dropped by the step: it goes to no worker, it is not put back,
\* and the step neither marks its URL visited nor requests it (unless the
\* step hands out an admissible item of the same URL)
DroppedNow(item) ==
    /\ \A t \in 1..Len(tasks') : tasks = <<>> => QueueItem(tasks'[t].url, tasks'[t].depth) # item
    /\ (cfg.variant \in {"basic", "rwcrawler"} => item.url \notin HandedNow)
    /\ Occurrences(urls_to_visit', item) < Occurrences(urls_to_visit, item)
    /\ item.url \in (visited_urls' \ visited_urls) => item.url \in HandedNow
    /\ item.url \in (hist'.requested \ hist.requested) => item.url \in HandedNow

InFlight == {t \in 1..Len(tasks) : tasks[t].pc \notin {"done", "collected"}}

\* C32: never more than concurrent_requests page fetches are in flight, and
\* a batch is popped only when every future of the batch before it has
\* returned.
BoundedConcurrency ==
    /\ [](Cardinality(InFlight) <= ConcurrentRequests)
    /\ [][PoppedNow # <<>> => InFlight = {}]_vars

\* A full batch is in flight while more items wait in the queue
FullBatchInFlight ==
    /\ Cardinality(InFlight) = ConcurrentRequests
    /\ urls_to_visit # <<>>

\* The run is in one of the crawl loops
InCrawlLoop == pc \in {"queue_seed", "queue_search", "s_loop", "b_loop", "r_loop"}

\* C33: a record that joins the catalog in a crawl loop is the record of a
\* page that was fetched: the URL of the record (for RWCrawler, some URL of
\* the discovered host) is a page the crawler received.  A URL that robots
\* disallows, whose request fails or that is only linked makes no record.
RecordOnlyAfterFetch ==
    [][InCrawlLoop =>
         /\ \A d \in (DOMAIN domain_data') \ (DOMAIN domain_data) :
               domain_data'[d].url \in hist'.fetched
         /\ \A h \in discovered_domains' \ discovered_domains :
               \E u \in hist'.fetched : u.host = h]_vars

\* The file holds a document whose count is the length of its list and whose
\* list names no domain twice
ConsistentDocument(f) ==
    /\ f.kind = "doc"
    /\ f.domains_found = Len(f.domains)
    /\ \A i, j \in 1..Len(f.domains) :
          f.domains[i].domain = f.domains[j].domain => i = j

\* Some thread finishes the write of its flush in this step
FlushCompletedNow ==
    /\ \E t \in Threads : sv[t].stage = "close" /\ sv'[t].stage # "close"
    /\ file' # file

\* C34: after every completed flush, incremental or snapshot, under every
\* interleaving, the file is a document with domains_found equal to the
\* length of its domains list and with no domain listed twice.
FlushLeavesConsistentDocument ==
    [][FlushCompletedNow => ConsistentDocument(file')]_vars

\* C35: at most one thread of run_crawler is running at any time, and a
\* start request that arrives while a run is active is answered
\* already_running and starts no thread.
SingleActiveRun ==
    /\ Cardinality(ActiveRuns) <= 1
    /\ \A r \in 1..NumRequests :
          dash.requests[r].arrived_active =>
             /\ dash.requests[r].pc = "done"
             /\ dash.requests[r].status = "already_running"
             /\ dash.runs[r].pc = "none"

\* C36: while crawler.run() executes is_running is true (is_running false
\* implies that no run is executing), and once every run has ended, by a
\* return or by an exception, is_running is false and start_time is None.
RunningFlagLifecycle ==
    /\ \A k \in 1..NumRequests : dash.runs[k].pc = "run" => crawler_state.is_running
    /\ ActiveRuns = {} => (~crawler_state.is_running /\ crawler_state.start_time = NoTime)

\* RWCrawler.run() is executing
InRwRun == cfg.variant = "rwcrawler" /\ pc \in {"r_loop", "r_count", "return"}

====
